---- MODULE Spec2Model ----
(***************************************************************************)
(* Model of the EESSI automated ingestion control plane                    *)
(* (scripts/automated_ingestion).                                          *)
(*                                                                         *)
(* Two state machines share one staging git repository:                    *)
(*   - the tarball machine, class EessiTarball (eessitarball.py), driven   *)
(*     by automated_ingestion.py in its "individual" pull request method;  *)
(*   - the task machine, class EESSITask (eessi_task.py), driven by        *)
(*     handle().                                                           *)
(* The variable mode records which of the two the process was started as.  *)
(*                                                                         *)
(* The staging repository is modelled as the default branch, the staging   *)
(* branches with the pull request opened for each, and the open issues.    *)
(* A handler run is one action: the scheduler is a single process that     *)
(* runs handlers one after the other.  Operators (merging or closing a     *)
(* pull request) act between handler runs, and, in the task machine,       *)
(* between the git-host calls of _update_task_states.                      *)
(***************************************************************************)
EXTENDS Integers, Sequences, FiniteSets, TLC

(***************************************************************************)
(* Bounds of the model.                                                    *)
(***************************************************************************)
\* highest sequence number a staging branch may get
MaxSeq == 2
\* highest number of runs of the ingest script per artifact
MaxIngestRuns == 2

(***************************************************************************)
(* The universe: two tarballs in the bucket, with metadata linking them to *)
(* source pull requests 4 and 42 of one repository.                        *)
(***************************************************************************)
Tarballs == {"a4", "a42"}
link2pr == [a4 |-> 4, a42 |-> 42]
PrIds == {link2pr[a] : a \in Tarballs}

(***************************************************************************)
(* The task machine handles two task descriptions of one source pull       *)
(* request; with the fixed sequence number they share one pull request     *)
(* directory prefix REPO/PR/SEQ and one feature branch REPO-PR-pr-SEQ-seq. *)
(***************************************************************************)
Tasks == {"t1", "t2"}
Artifacts == Tarballs \cup Tasks

Max(S) == CHOOSE x \in S : \A y \in S : y <= x
Min(S) == CHOOSE x \in S : \A y \in S : x <= y

(***************************************************************************)
(* EessiTarball: the states and their order of lookup.                     *)
(***************************************************************************)
states == <<"new", "staged", "approved", "ingested", "rejected", "unknown">>
StateDirs == {states[i] : i \in 1..Len(states)}

\* variant of next_state in which approved is the last state
next_state_upto_approved(state) ==
    CASE state = "new" -> "staged"
      [] state = "staged" -> "approved"
      [] state = "approved" -> "approved"
      [] OTHER -> "none"

next_state(state) ==
    CASE state = "new" -> "staged"
      [] state = "staged" -> "approved"
      [] state = "approved" -> "ingested"
      [] OTHER -> "none"

(***************************************************************************)
(* The staging repository.                                                 *)
(*   main[a]   the state directories of the default branch that hold the   *)
(*             metadata file of tarball a                                  *)
(*   brs[b]    staging branch b = <<pr, seq>>, named staging-REPO-pr-seq:  *)
(*             whether it exists, its tree, the default-branch tree it was *)
(*             created from, and the state of its pull request             *)
(*   issues[t] number of open issues with title t                          *)
(***************************************************************************)
DefaultBranch == <<0, 0>>
BranchIds == PrIds \X (1..MaxSeq)
PrStates == {"none", "open", "closed", "merged"}
EmptyTree == [a \in Tarballs |-> {}]
NoBranch == [exists |-> FALSE, tree |-> EmptyTree, base |-> EmptyTree, pr |-> "none"]
IssueKinds == {"signatures", "checksum", "ingest", "contents"}
IssueTitles == (IssueKinds \X Tarballs) \cup ({"add"} \X Tasks)

(***************************************************************************)
(* The download directory: what is stored locally for a tarball.           *)
(*   pay  the payload: none, or its content p1 or p2                       *)
(*   meta the metadata file: none, or m1 (it records the digest of p1)     *)
(*   psig, msig  the two signature files: none, or a signature the         *)
(*        verification script accepts (valid) or refuses (invalid)         *)
(***************************************************************************)
NoFiles == [pay |-> "none", psig |-> "none", meta |-> "none", msig |-> "none"]
SigDl == {"fail", "valid", "invalid"}
PayDl == {"fail", "p1", "p2"}
MetaDl == {"fail", "m1"}
\* what the bucket answers to the four download requests of one handler run
Downloads == [psig : SigDl, pay : PayDl, msig : SigDl, meta : MetaDl]

(***************************************************************************)
(* bucket is what find_tarballs lists.  The faults of the environment are  *)
(* exercised with tarball a4 alone in the bucket: its uploads may be       *)
(* missing, corrupt or wrongly signed, its downloads, its contents         *)
(* overview and its ingestion may fail, and its local files may be         *)
(* removed.  With a4 and a42 both in the bucket the uploads are well       *)
(* formed, and the two are handled beside each other in one repository.    *)
(***************************************************************************)
VARIABLES mode, cfg, bucket, main, brs, issues, local, ingestRuns, slack, lastOp,
          tdef, tfiles, feat, pc, obj, s3, call

vars == <<mode, cfg, bucket, main, brs, issues, local, ingestRuns, slack, lastOp,
          tdef, tfiles, feat, pc, obj, s3, call>>

\* the part of the state that only the task machine changes
tvars == <<tdef, tfiles, feat, pc>>

\* the part of the state that only the local mirror of one remote object changes
mvars == <<obj, s3, call>>

Buckets == {{"a4"}, {"a4", "a42"}}
Faulty == IF mode = "task" THEN {"t1"} ELSE IF Cardinality(bucket) = 1 THEN bucket ELSE {}
WellFormed == [psig |-> "valid", pay |-> "p1", msig |-> "valid", meta |-> "m1"]
DownloadsOf(a) == IF a \in Faulty THEN Downloads ELSE {WellFormed}
PrOk(a) == IF a \in Faulty THEN BOOLEAN ELSE {TRUE}
\* the call of move_metadata_file that fails in a run, if any
GitFaults == {"none", "delete_file", "create_file"}
FaultsOf(a, pr_ok, rc) == IF a \in Faulty /\ pr_ok /\ rc = 0 THEN GitFaults ELSE {"none"}
ExitCodes(a) == IF a \in Faulty THEN {0, 1} ELSE {0}
\* the HTTP status of the response of the slack webhook
Statuses(a) == IF a \in Faulty THEN {200, 500} ELSE {200}
\* download requests a file pair only when forced or when the local file is
\* missing, and stops at the first failure: what the bucket would answer to a
\* request that is not made makes no difference, and is left well-formed
Answers(a, force, d) ==
    LET required == cfg.signatures_required
        pair1 == force \/ local[a].pay = "none"
        pay_asked == pair1 /\ ~(d.psig = "fail" /\ required)
        stopped == pair1 /\ (~pay_asked \/ d.pay = "fail")
        pair2 == ~stopped /\ (force \/ local[a].meta = "none")
        meta_asked == pair2 /\ ~(d.msig = "fail" /\ required)
    IN /\ pair1 \/ d.psig = WellFormed.psig
       /\ pay_asked \/ d.pay = WellFormed.pay
       /\ pair2 \/ d.msig = WellFormed.msig
       /\ meta_asked \/ d.meta = WellFormed.meta

RequestsOf(a, force) == {d \in DownloadsOf(a) : Answers(a, force, d)}

\* utils.send_slack_message returns when the webhook answers 200, and else
\* raises ValueError
send_slack_message(status) == status = 200

\* the staging repository as one value
Repo == [main |-> main, brs |-> brs, issues |-> issues]

(***************************************************************************)
(* EessiTarball.download: for the payload and then the metadata file, when *)
(* forced or when the local file is missing, first the signature and then  *)
(* the file itself; a failed signature download is ignored when signatures *)
(* are not required; any other failure stops the loop and sets skip.       *)
(***************************************************************************)
download_one(loc, force, required, present, sigres, fileres, sigfield, filefield) ==
    IF ~(force \/ ~present)
    THEN [loc |-> loc, skip |-> FALSE]
    ELSE IF sigres = "fail" /\ required
    THEN [loc |-> loc, skip |-> TRUE]
    ELSE LET l1 == IF sigres = "fail" THEN loc ELSE [loc EXCEPT ![sigfield] = sigres]
         IN IF fileres = "fail"
            THEN [loc |-> l1, skip |-> TRUE]
            ELSE [loc |-> [l1 EXCEPT ![filefield] = fileres], skip |-> FALSE]

\* variant of download that never reports a failed download
download_noskip(loc, force, required, d) ==
    LET r1 == download_one(loc, force, required, loc.pay # "none", d.psig, d.pay, "psig", "pay")
        r2 == download_one(r1.loc, force, required, r1.loc.meta # "none",
                           d.msig, d.meta, "msig", "meta")
    IN [loc |-> r2.loc, skip |-> FALSE]

download(loc, force, required, d) ==
    LET r1 == download_one(loc, force, required, loc.pay # "none", d.psig, d.pay, "psig", "pay")
    IN IF r1.skip
       THEN r1
       ELSE download_one(r1.loc, force, required, r1.loc.meta # "none", d.msig, d.meta, "msig", "meta")

(***************************************************************************)
(* EessiTarball.verify_signatures: a missing signature file fails iff      *)
(* signatures are required; otherwise both signatures are verified.        *)
(***************************************************************************)
\* the exit code of the verification script for a signature file
verify_exit(sig) == IF sig = "valid" THEN 0 ELSE 1

\* the verification tools of the configuration: whether the verification
\* script and the allowed-signers file exist, and whether the command can be
\* started at all
Tools == [script : BOOLEAN, signers : BOOLEAN, runs : BOOLEAN]
Installed == [script |-> TRUE, signers |-> TRUE, runs |-> TRUE]

verify_signatures_tools(loc, required, tools) ==
    IF loc.psig = "none" \/ loc.msig = "none"
    THEN ~required
    ELSE IF ~tools.script THEN FALSE
    ELSE IF ~tools.signers THEN FALSE
    ELSE verify_exit(loc.psig) = 0 /\ verify_exit(loc.msig) = 0

verify_signatures(loc, required) == verify_signatures_tools(loc, required, Installed)

\* a digest is a sequence of hexadecimal digits
HexLower == <<"0", "1", "2", "3", "4", "5", "6", "7", "8", "9", "a", "b", "c", "d", "e", "f">>
HexUpper == <<"0", "1", "2", "3", "4", "5", "6", "7", "8", "9", "A", "B", "C", "D", "E", "F">>
\* the digits of digest h in lower case
lower(h) ==
    [i \in 1..Len(h) |->
        IF \E k \in 1..Len(HexUpper) : HexUpper[k] = h[i]
        THEN HexLower[CHOOSE k \in 1..Len(HexUpper) : HexUpper[k] = h[i]]
        ELSE h[i]]

\* utils.sha256sum of a local payload: hexdigest, in lower-case digits
sha256sum(pay) == IF pay = "p1" THEN <<"a", "1">> ELSE <<"b", "2">>
\* payload.sha256sum of a local metadata file, as written by the uploader:
\* m1 and m2 hold the digests of p1 and p2 in lower case, M1 and M2 hold
\* them in upper case
meta_sha256(meta) ==
    CASE meta = "M1" -> <<"A", "1">>
      [] meta = "m2" -> <<"b", "2">>
      [] meta = "M2" -> <<"B", "2">>
      [] OTHER -> <<"a", "1">>

\* variant of verify_checksum that accepts every payload
verify_checksum_any(loc) == TRUE

\* EessiTarball.verify_checksum
verify_checksum(loc) == sha256sum(loc.pay) = meta_sha256(loc.meta)

(***************************************************************************)
(* EessiTarball.find_state: the first state, in the order of states, whose *)
(* directory on the default branch holds the metadata file; else new.      *)
(***************************************************************************)
find_state(g, a) ==
    LET found == {i \in 1..Len(states) : states[i] \in g.main[a]}
    IN IF found = {} THEN "new" ELSE states[Min(found)]

(***************************************************************************)
(* EessiTarball.find_next_sequence_number: the refs that start with        *)
(* refs/heads/staging-REPO-<pr_id> are those of every pull request whose   *)
(* decimal number starts with the digits of pr_id.                         *)
(***************************************************************************)
RECURSIVE DecPrefix(_, _)
DecPrefix(p, q) == p = q \/ (q >= 10 /\ DecPrefix(p, q \div 10))

find_next_sequence_number(g, pr_id) ==
    LET existing_branches == {b \in BranchIds : g.brs[b].exists /\ DecPrefix(pr_id, b[1])}
    IN IF existing_branches = {}
       THEN 1
       ELSE Max({b[2] : b \in existing_branches}) + 1

\* EessiTarball.issue_exists, and create_issue guarded by it
issue_exists(g, title) == g.issues[title] > 0

create_issue(g, title) == [g EXCEPT !.issues[title] = @ + 1]

\* variant of the guarded creation that does not look for an open issue
create_issue_unguarded(g, title) == create_issue(g, title)

create_issue_once(g, title) == IF issue_exists(g, title) THEN g ELSE create_issue(g, title)

(***************************************************************************)
(* EessiTarball.move_metadata_file: three calls of the git host.           *)
(* get_contents reads the file in the old state directory of the default   *)
(* branch and raises when it is not there; delete_file removes it from the *)
(* old state directory of the given branch, which fails when the branch    *)
(* does not have the file; create_file creates it in the                   *)
(* new one.  fault names the call that fails in this run, if any: the      *)
(* exception leaves the function where it was raised.                      *)
(* move_metadata_file_keep is the variant that creates the new file        *)
(* without deleting the old one.                                           *)
(***************************************************************************)
delete_file(g, a, state, branch) ==
    IF branch = DefaultBranch
    THEN [g EXCEPT !.main[a] = @ \ {state}]
    ELSE [g EXCEPT !.brs[branch].tree[a] = @ \ {state}]

create_file(g, a, state, branch) ==
    IF branch = DefaultBranch
    THEN [g EXCEPT !.main[a] = @ \cup {state}]
    ELSE [g EXCEPT !.brs[branch].tree[a] = @ \cup {state}]

\* the file is at path state/<metadata file> in the branch
in_branch(g, a, state, branch) ==
    IF branch = DefaultBranch THEN state \in g.main[a] ELSE state \in g.brs[branch].tree[a]

move_metadata_file_keep(g, a, old_state, new_state, branch, fault) ==
    IF old_state \notin g.main[a] \/ ~in_branch(g, a, old_state, branch) \/ fault = "delete_file"
    THEN [g |-> g, raised |-> TRUE]
    ELSE IF fault = "create_file"
    THEN [g |-> g, raised |-> TRUE]
    ELSE [g |-> create_file(g, a, new_state, branch), raised |-> FALSE]

move_metadata_file(g, a, old_state, new_state, branch, fault) ==
    IF old_state \notin g.main[a] \/ ~in_branch(g, a, old_state, branch) \/ fault = "delete_file"
    THEN [g |-> g, raised |-> TRUE]
    ELSE IF fault = "create_file"
    THEN [g |-> delete_file(g, a, old_state, branch), raised |-> TRUE]
    ELSE [g |-> create_file(delete_file(g, a, old_state, branch), a, new_state, branch),
          raised |-> FALSE]

\* EessiTarball.reject
reject(g, a, state, fault) == move_metadata_file(g, a, state, "rejected", DefaultBranch, fault)

(***************************************************************************)
(* EessiTarball.make_approval_request for a single tarball.                *)
(* pr_ok: get_contents_overview and create_pull succeed.  An exception of  *)
(* move_metadata_file ends the run before the pull request is created.     *)
(***************************************************************************)
create_git_ref(g, branch) ==
    [g EXCEPT !.brs[branch] = [exists |-> TRUE, tree |-> g.main, base |-> g.main, pr |-> "none"]]

\* variant of the approval request that moves the file on the default branch
open_approval_pr_on_default(g, a, state, git_branch, pr_ok, fault) ==
    LET g1 == create_git_ref(g, git_branch)
        m == move_metadata_file(g1, a, state, next_state(state), DefaultBranch, fault)
    IN IF m.raised
       THEN [g |-> m.g, res |-> "exception"]
       ELSE IF pr_ok
       THEN [g |-> [m.g EXCEPT !.brs[git_branch].pr = "open"], res |-> "done"]
       ELSE [g |-> create_issue_once(m.g, <<"contents", a>>), res |-> "pr_failed"]

open_approval_pr(g, a, state, git_branch, pr_ok, fault) ==
    LET g1 == create_git_ref(g, git_branch)
        m == move_metadata_file(g1, a, state, next_state(state), git_branch, fault)
    IN IF m.raised
       THEN [g |-> m.g, res |-> "exception"]
       ELSE IF pr_ok
       THEN [g |-> [m.g EXCEPT !.brs[git_branch].pr = "open"], res |-> "done"]
       ELSE [g |-> create_issue_once(m.g, <<"contents", a>>), res |-> "pr_failed"]

make_approval_request(g, a, state, pr_ok, fault) ==
    LET sequence == find_next_sequence_number(g, link2pr[a])
        git_branch == <<link2pr[a], sequence>>
        rejected == reject(g, a, state, fault)
    IN IF git_branch \in BranchIds /\ g.brs[git_branch].exists
       THEN CASE g.brs[git_branch].pr = "open" -> [g |-> g, res |-> "done"]
              [] g.brs[git_branch].pr = "closed" ->
                     [g |-> rejected.g, res |-> IF rejected.raised THEN "exception" ELSE "done"]
              [] g.brs[git_branch].pr = "merged" -> [g |-> g, res |-> "done"]
              [] OTHER -> open_approval_pr([g EXCEPT !.brs[git_branch] = NoBranch],
                                           a, state, git_branch, pr_ok, fault)
       ELSE open_approval_pr(g, a, state, git_branch, pr_ok, fault)

(***************************************************************************)
(* The local mirror of one remote object and its signature                 *)
(* (EESSIDataAndSignatureObject with EESSIS3Bucket).                       *)
(*   o       what the download directory holds: the data file and the      *)
(*           signature file (none, or their content) and their two .etag   *)
(*           sidecars (none, or the ETag written there)                    *)
(*   remote  the content of the two objects in the bucket; fail: the       *)
(*           object is absent or cannot be reached, GET and HEAD raise     *)
(*   head_ok   the HEAD requests of the call are answered                  *)
(*   write_ok  the sidecars can be written                                 *)
(* The requests issued by a call are returned as a sequence.               *)
(***************************************************************************)
DownloadMode == {"FORCE", "CHECK_REMOTE", "CHECK_LOCAL"}
NoObject == [file |-> "none", sig |-> "none", file_etag |-> "none", sig_etag |-> "none"]

\* the ETag the bucket reports for an object with the given content
ETag(content) == "etag-" \o content

HEAD(which) == <<"HEAD", which>>
GET(which) == <<"GET", which>>

\* EESSIS3Bucket.get_metadata(...)["ETag"]: raises when the request fails
head_fails(content, head_ok) == content = "fail" \/ ~head_ok

\* variant of the decision that never asks the bucket for the ETags
should_download_if_missing(o, download_mode, remote, head_ok) ==
    [download |-> download_mode = "FORCE" \/ o.file = "none" \/ o.sig = "none", reqs |-> <<>>]

(***************************************************************************)
(* EESSIDataAndSignatureObject.download, the decision: whether to download *)
(* and the HEAD requests issued to decide.  Any exception of the ETag      *)
(* comparison means download.                                              *)
(***************************************************************************)
should_download(o, download_mode, remote, head_ok) ==
    LET local_files_exist == o.file # "none" /\ o.sig # "none"
    IN CASE download_mode = "FORCE" -> [download |-> TRUE, reqs |-> <<>>]
         [] download_mode = "CHECK_REMOTE" ->
              IF ~local_files_exist
              THEN [download |-> TRUE, reqs |-> <<>>]
              ELSE IF o.file_etag = "none" \/ o.sig_etag = "none"
              THEN [download |-> TRUE, reqs |-> <<>>]
              ELSE IF head_fails(remote.file, head_ok)
              THEN [download |-> TRUE, reqs |-> <<HEAD("file")>>]
              ELSE IF head_fails(remote.sig, head_ok)
              THEN [download |-> TRUE, reqs |-> <<HEAD("file"), HEAD("sig")>>]
              ELSE [download |-> ETag(remote.file) # o.file_etag \/ ETag(remote.sig) # o.sig_etag,
                    reqs |-> <<HEAD("file"), HEAD("sig")>>]
         [] OTHER -> [download |-> ~local_files_exist, reqs |-> <<>>]

\* variant of _write_etag that leaves the sidecar as it was
write_etag_never(etag, content, write_ok) == etag

\* EESSIS3Bucket._write_etag: a failure to write is logged and ignored
write_etag(etag, content, write_ok) == IF write_ok THEN ETag(content) ELSE etag

(***************************************************************************)
(* EESSIS3Bucket.download of one object: GET into the local file, then     *)
(* HEAD for the ETag, then the sidecar.                                    *)
(***************************************************************************)
bucket_download(which, content, file, etag, head_ok, write_ok) ==
    IF content = "fail"
    THEN [file |-> file, etag |-> etag, raised |-> TRUE, reqs |-> <<GET(which)>>]
    ELSE IF head_fails(content, head_ok)
    THEN [file |-> content, etag |-> etag, raised |-> TRUE, reqs |-> <<GET(which), HEAD(which)>>]
    ELSE [file |-> content, etag |-> write_etag(etag, content, write_ok), raised |-> FALSE,
          reqs |-> <<GET(which), HEAD(which)>>]

\* the clean-up after the failed download of a required signature, before
\* the exception is raised again
cleanup_required_signature(o) ==
    [o EXCEPT !.file = "none", !.file_etag = "none", !.sig_etag = "none"]

\* variant of the clean-up that leaves the local signature file
cleanup_keeping_signature(o) ==
    [o EXCEPT !.file = "none", !.file_etag = "none", !.sig_etag = "none"]

\* the clean-up of the outer except block, which a failed download of the
\* data file and the re-raised failure of a required signature both reach
cleanup_all(o) == NoObject

\* the clean-up after the failed download of an optional signature
cleanup_signature(o) == [o EXCEPT !.sig = "none", !.sig_etag = "none"]

(***************************************************************************)
(* EESSIDataAndSignatureObject.download: the data file first, then its     *)
(* signature.  ret is the value returned when nothing was raised.          *)
(***************************************************************************)
data_object_download(o, download_mode, required, remote, head_ok, write_ok) ==
    LET dec == should_download(o, download_mode, remote, head_ok)
        f == bucket_download("file", remote.file, o.file, o.file_etag, head_ok, write_ok)
        o1 == [o EXCEPT !.file = f.file, !.file_etag = f.etag]
        g == bucket_download("sig", remote.sig, o1.sig, o1.sig_etag, head_ok, write_ok)
        o2 == [o1 EXCEPT !.sig = g.file, !.sig_etag = g.etag]
    IN IF ~dec.download
       THEN [obj |-> o, raised |-> FALSE, ret |-> FALSE, reqs |-> dec.reqs]
       ELSE IF f.raised
       THEN [obj |-> cleanup_all(o1), raised |-> TRUE, ret |-> FALSE, reqs |-> dec.reqs \o f.reqs]
       ELSE IF g.raised
       THEN IF required
            THEN [obj |-> cleanup_all(cleanup_required_signature(o2)), raised |-> TRUE, ret |-> FALSE,
                  reqs |-> dec.reqs \o f.reqs \o g.reqs]
            ELSE [obj |-> cleanup_signature(o2), raised |-> FALSE, ret |-> TRUE,
                  reqs |-> dec.reqs \o f.reqs \o g.reqs]
       ELSE [obj |-> o2, raised |-> FALSE, ret |-> TRUE, reqs |-> dec.reqs \o f.reqs \o g.reqs]

\* the task machine keeps the files of the download directory and not their
\* sidecars: each run of handle() downloads
Mirrored(file, sig) == [file |-> file, sig |-> sig, file_etag |-> "none", sig_etag |-> "none"]

(***************************************************************************)
(* TaskState, in the order of the enumeration, and the task machine's view *)
(* of the staging repository:                                              *)
(*   tdef[t]  the TaskState file of task t on the default branch           *)
(*            (UNDETERMINED: the task pointer file does not exist)         *)
(*   feat     the feature branch: whether it exists, its TaskState files,  *)
(*            those of its merge base with the default branch, and the     *)
(*            state of its pull request                                    *)
(*   pc       Idle, or the task whose PAYLOAD_STAGED handler is between    *)
(*            the calls of _update_task_states, with the pull request it   *)
(*            found                                                        *)
(***************************************************************************)
TaskState == <<"UNDETERMINED", "NEW_TASK", "PAYLOAD_STAGED", "PULL_REQUEST",
               "APPROVED", "REJECTED", "INGESTED", "DONE">>
TaskStateValue(s) == CHOOSE i \in 1..Len(TaskState) : TaskState[i] = s

\* variant of valid_transitions in which a new task goes to PULL_REQUEST at once
valid_transitions_skip(s) ==
    CASE s = "UNDETERMINED" -> <<"NEW_TASK", "PAYLOAD_STAGED", "PULL_REQUEST",
                                 "APPROVED", "REJECTED", "INGESTED", "DONE">>
      [] s = "NEW_TASK" -> <<"PULL_REQUEST">>
      [] s = "PAYLOAD_STAGED" -> <<"PULL_REQUEST">>
      [] s = "PULL_REQUEST" -> <<"APPROVED", "REJECTED">>
      [] s = "APPROVED" -> <<"INGESTED">>
      [] OTHER -> <<>>

valid_transitions(s) ==
    CASE s = "UNDETERMINED" -> <<"NEW_TASK", "PAYLOAD_STAGED", "PULL_REQUEST",
                                 "APPROVED", "REJECTED", "INGESTED", "DONE">>
      [] s = "NEW_TASK" -> <<"PAYLOAD_STAGED">>
      [] s = "PAYLOAD_STAGED" -> <<"PULL_REQUEST">>
      [] s = "PULL_REQUEST" -> <<"APPROVED", "REJECTED">>
      [] s = "APPROVED" -> <<"INGESTED">>
      [] OTHER -> <<>>

next_task_state(s) == valid_transitions(s)[1]

NoTasks == [t \in Tasks |-> "UNDETERMINED"]
\* the files of a task on the default branch: PULL_REQUEST_DIR/TaskDescription,
\* PULL_REQUEST_DIR/TaskState and the pointer file at the task's remote path
TaskFiles == {"TaskDescription", "TaskState", "pointer"}
NoFeature == [exists |-> FALSE, tree |-> NoTasks, base |-> NoTasks, pr |-> "none"]
Idle == [t |-> "none", pr |-> "none"]

\* the configuration: signatures required or optional; the slack section
\* is configured with ingestion_notification set
Configs == [signatures_required : BOOLEAN, ingestion_notification : {TRUE}]

\* nothing in the staging repository, nothing downloaded, nothing run
NothingYet ==
    /\ brs = [b \in BranchIds |-> NoBranch]
    /\ issues = [t \in IssueTitles |-> 0]
    /\ local = [a \in Artifacts |-> NoFiles]
    /\ ingestRuns = [a \in Artifacts |-> 0]
    /\ slack = [a \in Artifacts |-> 0]
    /\ lastOp = [op |-> "init", a |-> "none", st |-> "none", res |-> "none", rc |-> {}]
    /\ tdef = NoTasks
    /\ tfiles = [t \in Tasks |-> {}]
    /\ feat = NoFeature
    /\ pc = Idle

NoCall == [op |-> "none"]

Init ==
    /\ \/ mode = "tarball" /\ bucket \in Buckets
       \/ mode = "task" /\ bucket = {}
    /\ cfg \in Configs
    /\ main = [a \in Tarballs |-> {}]
    /\ NothingYet
    /\ obj = NoObject
    /\ s3 = [file |-> "fail", sig |-> "fail"]
    /\ call = NoCall

SetRepo(g) ==
    /\ main' = g.main
    /\ brs' = g.brs
    /\ issues' = g.issues

\* lastOp: the operation of the last step, the artifact and the state it
\* was found in, the outcome, and the exit code of the ingestion script when
\* the step ran it
Ingested(op, a, st, res, rc) == lastOp' = [op |-> op, a |-> a, st |-> st, res |-> res, rc |-> {rc}]

Done(op, a, st, res) == lastOp' = [op |-> op, a |-> a, st |-> st, res |-> res, rc |-> {}]

\* the sequence number the staged handler would use still names a branch of the model
SeqInBound(a) == find_next_sequence_number(Repo, link2pr[a]) <= MaxSeq

\* the files of tarball a are downloaded and their signatures verified: the
\* run goes on to the calls of the git host
Verified(a, force, d) ==
    LET r == download(local[a], force, cfg.signatures_required, d)
    IN ~r.skip /\ verify_signatures(r.loc, cfg.signatures_required)

\* the run of ingest gets as far as the ingest script
ScriptRuns(a, d) ==
    LET r == download(local[a], FALSE, cfg.signatures_required, d)
        sig_missing == r.loc.psig = "none" \/ r.loc.msig = "none"
    IN /\ ~(r.skip /\ ~(sig_missing /\ cfg.signatures_required))
       /\ verify_signatures(r.loc, cfg.signatures_required)
       /\ verify_checksum(r.loc)

(***************************************************************************)
(* run_handler in state new: mark_new_tarball_as_staged, which on success  *)
(* runs the handler of state staged in the same run.                       *)
(***************************************************************************)
mark_new_tarball_as_staged(a, d, pr_ok, fault) ==
    LET r == download(local[a], TRUE, cfg.signatures_required, d)
        g1 == create_file(Repo, a, next_state("new"), DefaultBranch)
        m == make_approval_request(g1, a, "staged", pr_ok, fault)
    IN /\ mode = "tarball"
       /\ find_state(Repo, a) = "new"
       /\ SeqInBound(a)
       /\ local' = [local EXCEPT ![a] = r.loc]
       /\ UNCHANGED tvars /\ UNCHANGED mvars /\ UNCHANGED <<mode, cfg, bucket, slack, ingestRuns>>
       /\ IF r.skip
          THEN /\ UNCHANGED <<main, brs, issues>>
               /\ Done("run_handler", a, "new", "download_failed")
          ELSE IF ~verify_signatures(r.loc, cfg.signatures_required)
          THEN /\ UNCHANGED <<main, brs, issues>>
               /\ Done("run_handler", a, "new", "signatures_failed")
          ELSE /\ SetRepo(m.g)
               /\ Done("run_handler", a, "new", IF m.res = "exception" THEN m.res ELSE "staged")

(***************************************************************************)
(* run_handler in state staged: make_approval_request.  It reads the local *)
(* metadata file first; without it the run ends with an exception before   *)
(* any call to the git host.                                               *)
(***************************************************************************)
RunStaged(a, pr_ok, fault) ==
    /\ mode = "tarball"
    /\ find_state(Repo, a) = "staged"
    /\ SeqInBound(a)
    /\ IF local[a].meta = "none"
       THEN /\ UNCHANGED <<main, brs, issues>>
            /\ Done("run_handler", a, "staged", "exception")
       ELSE LET m == make_approval_request(Repo, a, "staged", pr_ok, fault)
            IN /\ SetRepo(m.g)
               /\ Done("run_handler", a, "staged", m.res)
    /\ UNCHANGED tvars /\ UNCHANGED mvars /\ UNCHANGED <<mode, cfg, bucket, slack, local, ingestRuns>>

(***************************************************************************)
(* run_handler in state approved: EessiTarball.ingest.                     *)
(* rc is the exit code of the ingest script.  After a failed download,     *)
(* local_path is None: verify_signatures still looks at the signature      *)
(* files, and every later use of local_path raises.                        *)
(***************************************************************************)
ingest(a, d, rc, fault, status) ==
    LET r == download(local[a], FALSE, cfg.signatures_required, d)
        m == move_metadata_file(Repo, a, "approved", next_state("approved"), DefaultBranch, fault)
        sig_ok == verify_signatures(r.loc, cfg.signatures_required)
        sig_missing == r.loc.psig = "none" \/ r.loc.msig = "none"
        \* the script ran and exited with 0, the metadata file was moved and
        \* ingestion_notification is set: send_slack_message
        sent == /\ ~(r.skip /\ ~(sig_missing /\ cfg.signatures_required))
                /\ sig_ok /\ verify_checksum(r.loc)
                /\ rc = 0 /\ ~m.raised
                /\ cfg.ingestion_notification
    IN /\ mode = "tarball"
       /\ find_state(Repo, a) = "approved"
       /\ ingestRuns[a] < MaxIngestRuns
       /\ local' = [local EXCEPT ![a] = r.loc]
       /\ UNCHANGED tvars /\ UNCHANGED mvars /\ UNCHANGED <<mode, cfg, bucket>>
       /\ slack' = [slack EXCEPT ![a] = IF sent THEN @ + 1 ELSE @]
       /\ IF r.skip /\ ~(sig_missing /\ cfg.signatures_required)
          THEN /\ UNCHANGED <<main, brs, issues, ingestRuns>>
               /\ Done("run_handler", a, "approved", "exception")
          ELSE IF ~sig_ok
          THEN /\ SetRepo(create_issue_once(Repo, <<"signatures", a>>))
               /\ UNCHANGED ingestRuns
               /\ Done("run_handler", a, "approved", "signatures_failed")
          ELSE IF ~verify_checksum(r.loc)
          THEN /\ SetRepo(create_issue_once(Repo, <<"checksum", a>>))
               /\ UNCHANGED ingestRuns
               /\ Done("run_handler", a, "approved", "checksum_failed")
          ELSE /\ ingestRuns' = [ingestRuns EXCEPT ![a] = @ + 1]
               /\ IF rc = 0
                  THEN /\ SetRepo(m.g)
                       /\ Ingested("run_handler", a, "approved",
                                   IF m.raised THEN "exception"
                                   ELSE IF sent /\ ~send_slack_message(status)
                                   THEN "slack_error" ELSE "ingested", rc)
                  ELSE /\ SetRepo(create_issue_once(Repo, <<"ingest", a>>))
                       /\ Ingested("run_handler", a, "approved", "ingest_failed", rc)

\* run_handler in the states ingested, rejected and unknown: print_ingested,
\* print_rejected, print_unknown
print_skipped(a) ==
    /\ mode = "tarball"
    /\ find_state(Repo, a) \in {"ingested", "rejected", "unknown"}
    /\ lastOp.op # "run_handler" \/ lastOp.a # a \/ lastOp.res # "skipped"
    /\ Done("run_handler", a, find_state(Repo, a), "skipped")
    /\ UNCHANGED tvars /\ UNCHANGED mvars /\ UNCHANGED <<mode, cfg, bucket, slack, main, brs, issues, local, ingestRuns>>

(***************************************************************************)
(* The operators of the staging repository.                                *)
(* Merging a pull request is git's three-way merge of the branch into the  *)
(* default branch, per metadata file (a file moved to two different        *)
(* directories on the two sides is a conflict, and the pull request cannot *)
(* be merged).                                                             *)
(***************************************************************************)
Conflict == {"conflict"}

merge3(base, ours, theirs, conflict) ==
    IF theirs = base THEN ours
    ELSE IF ours = base THEN theirs
    ELSE IF ours = theirs THEN ours
    ELSE conflict

merge_tree(base, ours, theirs) ==
    [a \in Tarballs |-> merge3(base[a], ours[a], theirs[a], Conflict)]

MergePR(b) ==
    LET merged == merge_tree(brs[b].base, main, brs[b].tree)
    IN /\ mode = "tarball"
       /\ brs[b].exists
       /\ brs[b].pr = "open"
       /\ \A a \in Tarballs : merged[a] # Conflict
       /\ main' = merged
       /\ brs' = [brs EXCEPT ![b].pr = "merged"]
       /\ Done("merge", "none", "none", "none")
       /\ UNCHANGED tvars /\ UNCHANGED mvars /\ UNCHANGED <<mode, cfg, bucket, slack, issues, local, ingestRuns>>

ClosePR(b) ==
    /\ mode = "tarball"
    /\ brs[b].exists
    /\ brs[b].pr = "open"
    /\ brs' = [brs EXCEPT ![b].pr = "closed"]
    /\ Done("close", "none", "none", "none")
    /\ UNCHANGED tvars /\ UNCHANGED mvars /\ UNCHANGED <<mode, cfg, bucket, slack, main, issues, local, ingestRuns>>

\* the download directory is cleaned
RemoveLocalFiles(a) ==
    /\ mode = "tarball"
    /\ a \in Faulty
    /\ local[a] # NoFiles
    /\ find_state(Repo, a) # "new"
    /\ local' = [local EXCEPT ![a] = NoFiles]
    /\ Done("clean", a, "none", "none")
    /\ UNCHANGED tvars /\ UNCHANGED mvars /\ UNCHANGED <<mode, cfg, bucket, slack, main, brs, issues, ingestRuns>>

\* EESSIDataAndSignatureObject.verify_signature
verify_signature_tools(sig, required, tools) ==
    IF sig = "none" THEN ~required
    ELSE IF ~tools.script THEN FALSE
    ELSE IF ~tools.signers THEN FALSE
    ELSE tools.runs /\ verify_exit(sig) = 0

\* variant of verify_signature that accepts every signature file
verify_signature_unchecked(sig, required) == TRUE

verify_signature(sig, required) == verify_signature_tools(sig, required, Installed)

\* the task machine's view of the staging repository as one value
TRepo == [tdef |-> tdef, files |-> tfiles, feat |-> feat, issues |-> issues]

SetTRepo(g) ==
    /\ tdef' = g.tdef
    /\ tfiles' = g.files
    /\ feat' = g.feat
    /\ issues' = g.issues

\* EESSITask.determine_state on the default branch: UNDETERMINED without
\* the task pointer file, and else what the TaskState file holds
determine_state(g, t) == IF "pointer" \in g.files[t] THEN g.tdef[t] ELSE "UNDETERMINED"

\* EESSITask._update_task_state_file
update_task_state_file(g, t, new_state, branch) ==
    IF branch = "default"
    THEN [g EXCEPT !.tdef[t] = new_state]
    ELSE [g EXCEPT !.feat.tree[t] = new_state]

\* variant of the commit that writes the files one after the other, so
\* that a failure leaves the ones written before it
create_file_by_file_commit(g, t, files_to_commit, commit_ok) ==
    IF commit_ok
    THEN [g |-> [g EXCEPT !.files[t] = @ \cup files_to_commit, !.tdef[t] = "NEW_TASK"],
          raised |-> FALSE]
    ELSE [g |-> [g EXCEPT !.files[t] = @ \cup {"TaskDescription", "TaskState"},
                          !.tdef[t] = "NEW_TASK"],
          raised |-> TRUE]

(***************************************************************************)
(* EESSITask._create_multi_file_commit: blobs, a tree and a commit are     *)
(* created, and the branch moves to the commit in the last call, ref.edit; *)
(* commit_ok: none of the calls raises.  The TaskState file of the commit  *)
(* holds NEW_TASK.                                                         *)
(***************************************************************************)
create_multi_file_commit(g, t, files_to_commit, commit_ok) ==
    IF commit_ok
    THEN [g |-> [g EXCEPT !.files[t] = @ \cup files_to_commit, !.tdef[t] = "NEW_TASK"],
          raised |-> FALSE]
    ELSE [g |-> g, raised |-> TRUE]

\* EESSITask._get_fixed_sequence_number
get_fixed_sequence_number == 11

\* the sequence number in the pull request directory REPO/PR/SEQ/TASK_FILE_NAME
\* that the pointer file of task t names, if the task has one; the tasks of
\* the model have one grouping key (repo, pr), and the feature branch is the
\* branch REPO-PR-pr-SEQ-seq of that sequence number
sequence_numbers(g, t) ==
    IF "pointer" \in g.files[t] THEN {get_fixed_sequence_number} ELSE {}

\* EESSITask._handle_add_undetermined: one commit on the default branch
\* with the task description, the TaskState file and the task pointer file
handle_add_undetermined(g, t, commit_ok) ==
    LET commit == create_multi_file_commit(g, t, TaskFiles, commit_ok)
    IN [g |-> commit.g, ret |-> IF commit.raised THEN "UNDETERMINED" ELSE "NEW_TASK"]

\* EESSITask._handle_add_new_task, once the payload object is initialised
handle_add_new_task(g, t) ==
    [g |-> update_task_state_file(g, t, next_task_state("NEW_TASK"), "default"),
     ret |-> next_task_state("NEW_TASK")]

\* variant of _handle_add_pull_request that puts the task of a closed pull
\* request back to PAYLOAD_STAGED
handle_add_pull_request_restage(g, t) ==
    IF g.feat.pr = "closed"
    THEN [g |-> update_task_state_file(g, t, "PAYLOAD_STAGED", "default"),
          ret |-> "PAYLOAD_STAGED"]
    ELSE [g |-> g, ret |-> "PULL_REQUEST"]

\* variant of _handle_add_pull_request that returns without writing
handle_add_pull_request_nowrite(g, t) ==
    IF g.feat.pr = "closed"
    THEN [g |-> g, ret |-> "REJECTED"]
    ELSE [g |-> g, ret |-> "PULL_REQUEST"]

(***************************************************************************)
(* EESSITask._handle_add_pull_request.  A pull request that was merged or  *)
(* closed has state closed on the git host.                                *)
(***************************************************************************)
handle_add_pull_request(g, t) ==
    IF g.feat.pr # "none"
    THEN IF g.feat.pr \in {"closed", "merged"}
         THEN IF g.feat.pr = "merged"
              THEN [g |-> g, ret |-> "PULL_REQUEST"]
              ELSE [g |-> update_task_state_file(g, t, "REJECTED", "default"),
                    ret |-> "REJECTED"]
         ELSE [g |-> g, ret |-> "PULL_REQUEST"]
    ELSE [g |-> g, ret |-> "PULL_REQUEST"]

\* variant of _perform_task_add that does not look at the exit code
perform_task_add_any_exit(g, t, rc, notify, status) ==
    [g |-> update_task_state_file(g, t, next_task_state("APPROVED"), "default"),
     ret |-> "INGESTED", msgs |-> IF notify THEN 1 ELSE 0]

(***************************************************************************)
(* EESSITask._perform_task_add under _handle_add_approved: the ingestion   *)
(* script is run on the local payload file; rc is its exit code.  After    *)
(* exit code 0 the TaskState file is updated and the notification is       *)
(* posted; the ValueError of send_slack_message is caught by               *)
(* _handle_add_approved, which then returns APPROVED.                      *)
(***************************************************************************)
perform_task_add(g, t, rc, notify, status) ==
    IF rc = 0
    THEN [g |-> update_task_state_file(g, t, next_task_state("APPROVED"), "default"),
          ret |-> IF notify /\ ~send_slack_message(status) THEN "APPROVED" ELSE "INGESTED",
          msgs |-> IF notify THEN 1 ELSE 0]
    ELSE [g |-> create_issue_once(g, <<"add", t>>), ret |-> "APPROVED", msgs |-> 0]

(***************************************************************************)
(* EESSITask._handle_add_payload_staged up to and including the first call *)
(* of _update_task_states, the update of the TaskState file on the default *)
(* branch.  The feature branch is created from the default branch when it  *)
(* does not exist; nothing more is done when its pull request is closed.   *)
(***************************************************************************)
handle_add_payload_staged(g, t) ==
    LET g1 == IF g.feat.exists
              THEN g
              ELSE [g EXCEPT !.feat = [exists |-> TRUE, tree |-> g.tdef,
                                       base |-> g.tdef, pr |-> "none"]]
    IN IF g1.feat.pr \in {"closed", "merged"}
       THEN [g |-> g1, ret |-> "PAYLOAD_STAGED", pc |-> Idle]
       ELSE [g |-> update_task_state_file(g1, t, next_task_state("PAYLOAD_STAGED"),
                                          "default"),
             ret |-> "none", pc |-> [t |-> t, pr |-> g1.feat.pr]]

(***************************************************************************)
(* The rest of _update_task_states and of _handle_add_payload_staged: the  *)
(* default branch is merged into the feature branch, the TaskState file of *)
(* the feature branch is set to APPROVED, and the pull request is created  *)
(* when none was found, and else updated.                                  *)
(***************************************************************************)
TaskConflict == "CONFLICT"

task_merge(base, ours, theirs) ==
    [t \in Tasks |-> merge3(base[t], ours[t], theirs[t], TaskConflict)]

\* variant that writes the TaskState file of the feature branch before the
\* default branch is merged into it
update_task_states_feature_first(g, t) ==
    LET g1 == update_task_state_file(g, t, "APPROVED", "feature")
        merged == task_merge(g1.feat.base, g1.feat.tree, g1.tdef)
        g2 == [g1 EXCEPT !.feat.tree = merged, !.feat.base = g1.tdef]
    IN IF \E u \in Tasks : merged[u] = TaskConflict
       THEN [g |-> g1, ret |-> "exception"]
       ELSE [g |-> g2, ret |-> "PULL_REQUEST"]

update_task_states(g, t) ==
    LET merged == task_merge(g.feat.base, g.feat.tree, g.tdef)
        g1 == [g EXCEPT !.feat.tree = merged, !.feat.base = g.tdef]
        g2 == update_task_state_file(g1, t, "APPROVED", "feature")
    IN IF \E u \in Tasks : merged[u] = TaskConflict
       THEN [g |-> g, ret |-> "exception"]
       ELSE [g |-> g2, ret |-> "PULL_REQUEST"]

\* EESSITask._create_pull_request: the task summary is committed to the
\* feature branch and the pull request is created; pr_ok: none of the calls
\* raises
create_pull_request(g, t, pr_ok) ==
    IF pr_ok
    THEN [g |-> [g EXCEPT !.feat.pr = "open"], raised |-> FALSE]
    ELSE [g |-> g, raised |-> TRUE]

(***************************************************************************)
(* One run for task t: the task description and, from state PAYLOAD_STAGED *)
(* on, the payload are downloaded and their signatures verified when the   *)
(* EESSITask is constructed; then handle() runs the handler of the state   *)
(* found on the default branch.  d is what the bucket answers, rc the exit *)
(* code of the ingestion script.                                           *)
(***************************************************************************)
handle(t, d, rc, commit_ok, status) ==
    LET required == cfg.signatures_required
        state == determine_state(TRepo, t)
        dd == data_object_download(Mirrored(local[t].meta, local[t].msig), "CHECK_REMOTE",
                                   required, [file |-> d.meta, sig |-> d.msig], TRUE, TRUE)
        l1 == [local[t] EXCEPT !.meta = dd.obj.file, !.msig = dd.obj.sig]
        pd == data_object_download(Mirrored(l1.pay, l1.psig), "CHECK_REMOTE",
                                   required, [file |-> d.pay, sig |-> d.psig], TRUE, TRUE)
        l2 == [l1 EXCEPT !.pay = pd.obj.file, !.psig = pd.obj.sig]
        staged == TaskStateValue(state) >= TaskStateValue("PAYLOAD_STAGED")
        r == CASE state = "UNDETERMINED" -> handle_add_undetermined(TRepo, t, commit_ok)
               [] state = "NEW_TASK" -> handle_add_new_task(TRepo, t)
               [] state = "PAYLOAD_STAGED" -> handle_add_payload_staged(TRepo, t)
               [] state = "PULL_REQUEST" -> handle_add_pull_request(TRepo, t)
               [] state = "APPROVED" -> perform_task_add(TRepo, t, rc, cfg.ingestion_notification, status)
               [] OTHER -> [g |-> TRepo, ret |-> "DONE"]
    IN /\ mode = "task"
       /\ pc = Idle
       /\ state = "APPROVED" => ingestRuns[t] < MaxIngestRuns
       /\ UNCHANGED mvars /\ UNCHANGED <<mode, cfg, bucket, main, brs>>
       /\ IF dd.raised
          THEN \* the task description cannot be downloaded
               /\ local' = [local EXCEPT ![t] = l1]
               /\ UNCHANGED <<tdef, tfiles, feat, issues, ingestRuns, slack, pc>>
               /\ Done("handle", t, state, "no_task")
          ELSE IF ~verify_signature(dd.obj.sig, required)
          THEN \* the metadata is not read: the action is unknown and there is
               \* no payload file name
               /\ local' = [local EXCEPT ![t] = l1]
               /\ UNCHANGED <<tdef, tfiles, feat, issues, ingestRuns, slack, pc>>
               /\ Done("handle", t, state, IF staged THEN "no_task" ELSE state)
          ELSE IF (staged \/ state = "NEW_TASK") /\ pd.raised
          THEN \* the payload cannot be downloaded
               /\ local' = [local EXCEPT ![t] = l2]
               /\ UNCHANGED <<tdef, tfiles, feat, issues, ingestRuns, slack, pc>>
               /\ Done("handle", t, state, IF staged THEN "no_task" ELSE "exception")
          ELSE /\ local' = [local EXCEPT ![t] = IF state = "UNDETERMINED" THEN l1 ELSE l2]
               /\ SetTRepo(r.g)
               /\ ingestRuns' = [ingestRuns EXCEPT
                                    ![t] = IF state = "APPROVED" THEN @ + 1 ELSE @]
               /\ slack' = [slack EXCEPT ![t] = IF state = "APPROVED" THEN @ + r.msgs ELSE @]
               /\ pc' = IF state = "PAYLOAD_STAGED" THEN r.pc ELSE Idle
               /\ IF state = "APPROVED"
                  THEN Ingested("handle", t, state, r.ret, rc)
                  ELSE Done("handle", t, state, r.ret)

\* a run requests the signature of a file only after the file itself, and
\* the payload only for a task that is past UNDETERMINED and whose
\* description was downloaded and verified: what the bucket would answer to
\* a request that is not made makes no difference, and is left well-formed
TaskAnswers(t, d) ==
    LET required == cfg.signatures_required
        dd == data_object_download(Mirrored(local[t].meta, local[t].msig), "CHECK_REMOTE",
                                   required, [file |-> d.meta, sig |-> d.msig], TRUE, TRUE)
        payload_asked == /\ determine_state(TRepo, t) # "UNDETERMINED"
                         /\ ~dd.raised /\ verify_signature(dd.obj.sig, required)
    IN /\ d.meta # "fail" \/ d.msig = WellFormed.msig
       /\ payload_asked \/ d.pay = WellFormed.pay
       /\ (payload_asked /\ d.pay # "fail") \/ d.psig = WellFormed.psig

TaskRequestsOf(t) == {d \in DownloadsOf(t) : TaskAnswers(t, d)}

\* the handler of PAYLOAD_STAGED goes on after the update of the default branch
FinishPayloadStaged(pr_ok) ==
    LET r == update_task_states(TRepo, pc.t)
        c == create_pull_request(r.g, pc.t, pr_ok)
    IN /\ mode = "task"
       /\ pc # Idle
       /\ pc' = Idle
       /\ IF r.ret = "exception"
          THEN SetTRepo(r.g) /\ Done("handle", pc.t, "PAYLOAD_STAGED", r.ret)
          ELSE IF pc.pr = "none"
          THEN /\ SetTRepo(c.g)
               /\ Done("handle", pc.t, "PAYLOAD_STAGED",
                       IF c.raised THEN "create_pull_request_failed" ELSE r.ret)
          ELSE SetTRepo(r.g) /\ Done("handle", pc.t, "PAYLOAD_STAGED", r.ret)
       /\ UNCHANGED mvars /\ UNCHANGED <<mode, cfg, bucket, slack, main, brs, local, ingestRuns>>

\* an operator merges the pull request of the feature branch
TaskMergePR ==
    LET merged == task_merge(feat.base, tdef, feat.tree)
    IN /\ mode = "task"
       /\ feat.pr = "open"
       /\ \A t \in Tasks : merged[t] # TaskConflict
       /\ tdef' = merged
       /\ feat' = [feat EXCEPT !.pr = "merged", !.base = feat.tree]
       /\ Done("merge", "none", "none", "none")
       /\ UNCHANGED mvars /\ UNCHANGED <<mode, cfg, bucket, slack, main, brs, issues, local, ingestRuns, tfiles, pc>>

\* an operator closes the pull request of the feature branch without merging
TaskClosePR ==
    /\ mode = "task"
    /\ feat.pr = "open"
    /\ feat' = [feat EXCEPT !.pr = "closed"]
    /\ Done("close", "none", "none", "none")
    /\ UNCHANGED mvars /\ UNCHANGED <<mode, cfg, bucket, slack, main, brs, issues, local, ingestRuns, tdef, tfiles, pc>>

Next ==
    \/ \E a \in bucket : \E d \in RequestsOf(a, TRUE) :
           \E pr_ok \in IF Verified(a, TRUE, d) THEN PrOk(a) ELSE {TRUE} :
               \E fault \in FaultsOf(a, pr_ok /\ Verified(a, TRUE, d), 0) :
                   mark_new_tarball_as_staged(a, d, pr_ok, fault)
    \/ \E a \in bucket : \E pr_ok \in PrOk(a) :
           \E fault \in FaultsOf(a, pr_ok, 0) : RunStaged(a, pr_ok, fault)
    \/ \E a \in bucket : \E d \in RequestsOf(a, FALSE) :
           \E rc \in IF ScriptRuns(a, d) THEN ExitCodes(a) ELSE {0} :
               \E fault \in FaultsOf(a, ScriptRuns(a, d), rc) :
                   \E status \in IF ScriptRuns(a, d) /\ rc = 0 /\ fault = "none"
                                 THEN Statuses(a) ELSE {200} :
                       ingest(a, d, rc, fault, status)
    \/ \E a \in bucket : print_skipped(a)
    \/ \E b \in BranchIds : MergePR(b)
    \/ \E b \in BranchIds : ClosePR(b)
    \/ \E a \in bucket : RemoveLocalFiles(a)
    \/ \E t \in Tasks :
           \E d \in TaskRequestsOf(t), rc \in IF tdef[t] = "APPROVED" THEN ExitCodes(t) ELSE {0} :
               \E commit_ok \in IF tdef[t] = "UNDETERMINED" THEN PrOk(t) ELSE {TRUE} :
                   \E status \in IF tdef[t] = "APPROVED" /\ rc = 0 THEN Statuses(t) ELSE {200} :
                       handle(t, d, rc, commit_ok, status)
    \/ \E pr_ok \in IF pc.pr = "none" THEN BOOLEAN ELSE {TRUE} : FinishPayloadStaged(pr_ok)
    \/ TaskMergePR
    \/ TaskClosePR

Spec == Init /\ [][Next]_vars

(***************************************************************************)
(* Repeated scheduler runs in which the remote calls eventually succeed:   *)
(* for each task, a run in which the bucket answers every request with a   *)
(* well-formed file, every call of the git host and the webhook succeeds   *)
(* and the script exits with 0 is taken again and again.                   *)
(***************************************************************************)
SuccessfulRun(t) == handle(t, WellFormed, 0, TRUE, 200)

\* the task machine on its own; in a run the bucket answers every request
\* of the run or none
TaskInit == Init /\ mode = "task"

Unreachable == [psig |-> "fail", pay |-> "fail", msig |-> "fail", meta |-> "fail"]

TaskNext ==
    \/ \E t \in Tasks :
           \E d \in {WellFormed, Unreachable},
              rc \in IF tdef[t] = "APPROVED" THEN {0, 1} ELSE {0} :
               \E commit_ok \in IF tdef[t] = "UNDETERMINED" THEN BOOLEAN ELSE {TRUE} :
                   \E status \in IF tdef[t] = "APPROVED" /\ rc = 0 THEN {200, 500} ELSE {200} :
                       handle(t, d, rc, commit_ok, status)
    \/ \E pr_ok \in IF pc.pr = "none" THEN BOOLEAN ELSE {TRUE} : FinishPayloadStaged(pr_ok)
    \/ TaskMergePR
    \/ TaskClosePR

LiveSpec ==
    /\ TaskInit /\ [][TaskNext]_vars
    /\ \A t \in Tasks : SF_vars(SuccessfulRun(t))
    /\ WF_vars(FinishPayloadStaged(TRUE))

(***************************************************************************)
(* Properties of the tarball machine.                                      *)
(***************************************************************************)
\* the staging branches opened for the source pull request of tarball a
OwnBranches(a) == {b \in BranchIds : b[1] = link2pr[a]}

\* the step is a run of the handler of state st for tarball a
Ran(a, st) == lastOp'.op = "run_handler" /\ lastOp'.a = a /\ lastOp'.st = st

\* C1: after any sequence of handler runs and pull request merges, the
\* metadata file of each tarball is in at most one state directory of the
\* default branch.
C1_OneStateDir == \A a \in Tarballs : Cardinality(main[a]) <= 1

C1_Witness ==
    /\ bucket = {"a4", "a42"}
    /\ main["a4"] = {"ingested"}
    /\ main["a42"] = {"approved"}
    /\ \A a \in bucket : \E b \in OwnBranches(a) : brs[b].pr = "merged"

\* C2: ingest runs the ingest script, and moves the metadata file from
\* approved to ingested, only if in that run verify_signatures returned true
\* and the SHA-256 of the local payload equals the one of the metadata file;
\* a run in which either check fails does not run the script and leaves the
\* metadata file in approved.
C2_IngestOnlyVerified ==
    [][\A a \in Tarballs :
         LET sig_ok == verify_signatures(local'[a], cfg.signatures_required)
             sum_ok == sha256sum(local'[a].pay) = meta_sha256(local'[a].meta)
         IN /\ (ingestRuns'[a] # ingestRuns[a] \/ "ingested" \in main'[a] \ main[a])
                  => Ran(a, "approved") /\ sig_ok /\ sum_ok
            /\ (Ran(a, "approved") /\ ~(sig_ok /\ sum_ok))
                  => ingestRuns' = ingestRuns /\ main' = main /\ main[a] = {"approved"}
      ]_vars

C2_Witness ==
    /\ main["a4"] = {"ingested"}
    /\ ingestRuns["a4"] = 1
    /\ issues[<<"checksum", "a4">>] = 1
    /\ issues[<<"signatures", "a4">>] = 1

\* C3: in the task machine the TaskState of a task on the default branch
\* becomes INGESTED only if the signature of the payload was verified and
\* the SHA-256 of the payload equals payload.sha256sum of the metadata when
\* the handler of APPROVED ran the ingestion script.
C3_TaskIngestedOnlyVerified ==
    [][\A t \in Tasks :
         (tdef'[t] = "INGESTED" /\ tdef[t] # "INGESTED")
         => /\ verify_signature(local'[t].psig, cfg.signatures_required)
            /\ sha256sum(local'[t].pay) = meta_sha256(local'[t].meta)
      ]_vars

\* C4: the ingest script is run only after the approval pull request has
\* been merged; the handlers never write the approved state (an entry in
\* approved, or TaskState APPROVED) on the default branch, only on the
\* staging branch: approved reaches the default branch by a merge alone.
C4_ApprovedOnlyByMerge ==
    [][/\ \A a \in Tarballs :
            /\ "approved" \in main'[a] \ main[a]
                 => /\ lastOp'.op = "merge"
                    /\ \E b \in OwnBranches(a) :
                           /\ brs[b].pr = "open" /\ brs'[b].pr = "merged"
                           /\ "approved" \in brs[b].tree[a]
            /\ ingestRuns'[a] # ingestRuns[a]
                 => \E b \in OwnBranches(a) :
                        brs[b].pr = "merged" /\ "approved" \in brs[b].tree[a]
       /\ \A t \in Tasks :
            /\ (tdef'[t] = "APPROVED" /\ tdef[t] # "APPROVED")
                 => /\ lastOp'.op = "merge"
                    /\ feat.pr = "open" /\ feat'.pr = "merged"
                    /\ feat.tree[t] = "APPROVED"
            /\ ingestRuns'[t] # ingestRuns[t] => feat.pr = "merged"
      ]_vars

C4_Witness ==
    /\ lastOp.op = "run_handler" /\ lastOp.a = "a42" /\ lastOp.res = "ingested"
    /\ ingestRuns["a42"] = 1
    /\ brs[<<42, 1>>].pr = "merged"

\* C5: the handler of state new writes the metadata file to staged only
\* after the forced download succeeded and verify_signatures returned true;
\* when either fails nothing is written to the repository and the tarball
\* is still new on the next run.
C5_StagedOnlyVerified ==
    [][\A a \in Tarballs :
         /\ "staged" \in main'[a] \ main[a]
              => /\ Ran(a, "new")
                 /\ local'[a].pay # "none" /\ local'[a].meta # "none"
                 /\ verify_signatures(local'[a], cfg.signatures_required)
         /\ (Ran(a, "new") /\ lastOp'.res \in {"download_failed", "signatures_failed"})
              => main' = main /\ brs' = brs /\ issues' = issues /\ main[a] = {}
      ]_vars

C5_Witness ==
    /\ lastOp = [op |-> "run_handler", a |-> "a4", st |-> "new", res |-> "staged", rc |-> {}]
    /\ cfg.signatures_required
    /\ main["a4"] = {"staged"}
    /\ local["a4"].psig = "valid" /\ local["a4"].msig = "valid"

\* C6: running the handler again for a staged tarball whose pull request
\* is open changes nothing: no branch and no pull request is created.
C6_RerunIsNoOp ==
    [][\A a \in Tarballs :
         (/\ find_state(Repo, a) = "staged"
          /\ local[a].meta # "none"
          /\ \E b \in OwnBranches(a) : brs[b].exists /\ brs[b].pr = "open"
          /\ Ran(a, "staged"))
         => main' = main /\ brs' = brs /\ issues' = issues
      ]_vars

\* C7: when the pull request of a staged tarball was closed without
\* merging, the next handler run moves the metadata file to rejected.
C7_ClosedPRRejected ==
    [][\A a \in Tarballs :
         (/\ find_state(Repo, a) = "staged"
          /\ local[a].meta # "none"
          /\ \E b \in OwnBranches(a) : brs[b].exists
          /\ \A b \in OwnBranches(a) : brs[b].exists => brs[b].pr = "closed"
          /\ Ran(a, "staged"))
         => main'[a] = {"rejected"}
      ]_vars

\* the step is a call of handle() for task t found in state st
Handled(t, st) ==
    lastOp'.op = "handle" /\ lastOp'.a = t /\ lastOp'.st = st /\ lastOp'.res # "no_task"

C9_MergedReturnsApproved ==
    [][\A t \in Tasks :
         (Handled(t, "PULL_REQUEST") /\ feat.pr = "merged")
         => /\ lastOp'.res = "APPROVED"
            /\ tdef' = tdef /\ feat' = feat /\ issues' = issues
      ]_vars

\* C10: when a staging branch exists without a pull request, the next run
\* of the staged handler that opens a pull request leaves no staging branch
\* of the tarball without a pull request.
C10_BranchWithoutPRRepaired ==
    [][\A a \in Tarballs :
         (/\ find_state(Repo, a) = "staged"
          /\ local[a].meta # "none"
          /\ \E b \in OwnBranches(a) : brs[b].exists /\ brs[b].pr = "none"
          /\ Ran(a, "staged") /\ lastOp'.res = "done")
         => \A b \in OwnBranches(a) : brs'[b].exists => brs'[b].pr # "none"
      ]_vars

\* C11: with signatures required and the signature objects absent from the
\* bucket, a run of the handler of state new leaves the tarball new and
\* leaves exactly one open issue "Failed to verify signatures" for it.
C11_AbsentSignatureIssueOnce ==
    [][\A a \in Tarballs :
         (Ran(a, "new") /\ cfg.signatures_required /\ local'[a].psig = "none")
         => /\ find_state([main |-> main', brs |-> brs', issues |-> issues'], a) = "new"
            /\ issues'[<<"signatures", a>>] = 1
      ]_vars

\* C12: an issue is created only when no open issue has its title, on every
\* path that creates issues, so that at most one issue per title is open.
C12_NoDuplicateIssue ==
    /\ [](\A title \in IssueTitles : issues[title] <= 1)
    /\ [][\A title \in IssueTitles :
            issues'[title] # issues[title] => issues[title] = 0 /\ issues'[title] = 1
        ]_vars

C12_Witness ==
    /\ lastOp.op = "run_handler" /\ lastOp.a = "a4" /\ lastOp.res = "ingest_failed"
    /\ ingestRuns["a4"] = 2
    /\ \A kind \in IssueKinds : issues[<<kind, "a4">>] = 1

\* C13: when the ingestion script exits with a code other than 0, the
\* state of the artifact is unchanged (the metadata file stays in approved;
\* the TaskState stays APPROVED and the handler returns APPROVED), no
\* notification is sent, and an open issue for the failure exists afterwards.
C13_FailedIngestKeepsState ==
    [][/\ \A a \in Tarballs :
            (Ran(a, "approved") /\ lastOp'.rc # {} /\ 0 \notin lastOp'.rc)
            => /\ main' = main /\ brs' = brs
               /\ main[a] = {"approved"}
               /\ slack' = slack
               /\ issues'[<<"ingest", a>>] >= 1
       /\ \A t \in Tasks :
            (Handled(t, "APPROVED") /\ lastOp'.rc # {} /\ 0 \notin lastOp'.rc)
            => /\ tdef' = tdef /\ tfiles' = tfiles /\ feat' = feat
               /\ tdef[t] = "APPROVED"
               /\ lastOp'.res = "APPROVED"
               /\ slack' = slack
               /\ issues'[<<"add", t>>] >= 1
      ]_vars

C13_Witness ==
    /\ lastOp = [op |-> "handle", a |-> "t1", st |-> "APPROVED", res |-> "APPROVED", rc |-> {1}]
    /\ tdef["t1"] = "APPROVED"
    /\ issues[<<"add", "t1">>] = 1
    /\ slack["t1"] = 0

\* C14: a tarball with valid signatures and a matching checksum whose
\* approval pull request was merged is ingested by the next run: the script
\* is run, once, and the metadata file is then in ingested; a tarball found
\* as ingested stays ingested and the script is not run for it again.
C14_HappyPathIngestedOnce ==
    /\ [](bucket = Tarballs => \A a \in Tarballs : ingestRuns[a] <= 1)
    /\ [][\A a \in Tarballs :
            /\ (bucket = Tarballs /\ Ran(a, "approved"))
                 => /\ ingestRuns'[a] = ingestRuns[a] + 1
                    /\ lastOp'.rc = {0}
                    /\ main'[a] = {"ingested"}
            /\ find_state(Repo, a) = "ingested"
                 => /\ ingestRuns'[a] = ingestRuns[a]
                    /\ main'[a] = main[a]
        ]_vars

C14_Witness ==
    /\ bucket = Tarballs
    /\ lastOp = [op |-> "run_handler", a |-> "a42", st |-> "ingested", res |-> "skipped", rc |-> {}]
    /\ main["a42"] = {"ingested"}
    /\ ingestRuns["a42"] = 1
    /\ slack["a42"] = 1

\* C16: the metadata file of a tarball that is in a state directory of the
\* default branch is never absent from all state directories afterwards,
\* also when a call of the git host fails within the transition.
C16_NeverWithoutStateDir ==
    [][\A a \in Tarballs : main[a] # {} => main'[a] # {}]_vars

\* C17: the commit of the UNDETERMINED handler is atomic: a task has all of
\* TaskDescription, TaskState and pointer file on the default branch or none
\* of them; when the commit fails the handler returns UNDETERMINED and the
\* repository is unchanged, and else the TaskState file holds NEW_TASK.
C17_AtomicNewTaskCommit ==
    /\ [](\A t \in Tasks : tfiles[t] \in {{}, TaskFiles})
    /\ [][\A t \in Tasks :
            Handled(t, "UNDETERMINED")
            => IF lastOp'.res = "UNDETERMINED"
               THEN tfiles' = tfiles /\ tdef' = tdef /\ feat' = feat
               ELSE /\ lastOp'.res = "NEW_TASK"
                    /\ tfiles' = [tfiles EXCEPT ![t] = TaskFiles]
                    /\ tdef' = [tdef EXCEPT ![t] = "NEW_TASK"]
        ]_vars

C17_Witness ==
    /\ lastOp = [op |-> "handle", a |-> "t1", st |-> "UNDETERMINED", res |-> "UNDETERMINED",
                 rc |-> {}]
    /\ local["t1"].meta # "none"
    /\ verify_signature(local["t1"].msig, cfg.signatures_required)
    /\ tfiles["t1"] = {}
    /\ tfiles["t2"] = TaskFiles

(***************************************************************************)
(* EessiTarball.move_metadata_file on its own: the function is applied to  *)
(* any tarball and any two state directories, whatever directory holds the *)
(* metadata file, also a second time after the file was moved.             *)
(***************************************************************************)
MoveDirs == {"staged", "approved", "ingested", "rejected"}

MoveInit ==
    /\ mode = "move" /\ bucket = Tarballs
    /\ cfg \in Configs
    /\ main \in [Tarballs -> {{}} \cup {{dir} : dir \in MoveDirs}]
    /\ NothingYet
    /\ obj = NoObject
    /\ s3 = [file |-> "fail", sig |-> "fail"]
    /\ call = NoCall

MoveCall(a, old_state, new_state, fault) ==
    LET m == move_metadata_file(Repo, a, old_state, new_state, DefaultBranch, fault)
    IN /\ mode = "move"
       /\ SetRepo(m.g)
       /\ Done("move_metadata_file", a, <<old_state, new_state>>,
               IF m.raised THEN "raised" ELSE "moved")
       /\ UNCHANGED tvars /\ UNCHANGED mvars
       /\ UNCHANGED <<mode, cfg, bucket, slack, local, ingestRuns>>

MoveNext ==
    \E a \in Tarballs : \E old_state \in MoveDirs, new_state \in MoveDirs, fault \in GitFaults :
        MoveCall(a, old_state, new_state, fault)

MoveSpec == MoveInit /\ [][MoveNext]_vars

\* C15: a second call of move_metadata_file(old, new), made when the file
\* was already moved and is not in the old state directory, succeeds and
\* leaves the staging repository unchanged.
C15_SecondMoveSucceeds ==
    [][\A a \in Tarballs : \A old_state \in MoveDirs, new_state \in MoveDirs :
         (/\ lastOp'.op = "move_metadata_file" /\ lastOp'.a = a
          /\ lastOp'.st = <<old_state, new_state>>
          /\ old_state \notin main[a] /\ new_state \in main[a])
         => lastOp'.res = "moved" /\ main' = main /\ brs' = brs /\ issues' = issues
      ]_vars

(***************************************************************************)
(* The local mirror on its own: one data object and its signature in the   *)
(* bucket, uploaded, replaced or removed there between the calls, and      *)
(* their local files and sidecars in the download directory.               *)
(*   obj   what the download directory holds                               *)
(*   s3    the content of the two objects in the bucket                    *)
(*   call  the last call: its arguments, its outcome and its requests      *)
(***************************************************************************)
Contents == [file |-> {"c1", "c2"}, sig |-> {"s1", "s2"}]

MirrorInit ==
    /\ mode = "mirror" /\ bucket = {}
    /\ cfg \in Configs
    /\ main = [a \in Tarballs |-> {}]
    /\ NothingYet
    /\ obj = NoObject
    /\ s3 = [file |-> "fail", sig |-> "fail"]
    /\ call = NoCall

MirrorUnchanged ==
    /\ UNCHANGED tvars
    /\ UNCHANGED <<mode, cfg, bucket, main, brs, issues, local, ingestRuns, slack, lastOp>>

\* EESSIDataAndSignatureObject.download(mode)
Download(download_mode, head_ok, write_ok) ==
    LET r == data_object_download(obj, download_mode, cfg.signatures_required, s3,
                                  head_ok, write_ok)
    IN /\ mode = "mirror"
       /\ obj' = r.obj
       /\ call' = [op |-> "download", mode |-> download_mode, which |-> "both",
                   head_ok |-> head_ok, write_ok |-> write_ok,
                   raised |-> r.raised, ret |-> r.ret, reqs |-> r.reqs]
       /\ UNCHANGED s3
       /\ MirrorUnchanged

\* EESSIS3Bucket.download(remote_path, local_path) for one of the two objects
BucketDownload(which, head_ok, write_ok) ==
    LET etag == IF which = "file" THEN "file_etag" ELSE "sig_etag"
        r == bucket_download(which, s3[which], obj[which], obj[etag], head_ok, write_ok)
    IN /\ mode = "mirror"
       /\ obj' = [obj EXCEPT ![which] = r.file, ![etag] = r.etag]
       /\ call' = [op |-> "bucket_download", mode |-> "none", which |-> which,
                   head_ok |-> head_ok, write_ok |-> write_ok,
                   raised |-> r.raised, ret |-> FALSE, reqs |-> r.reqs]
       /\ UNCHANGED s3
       /\ MirrorUnchanged

\* an object is uploaded, replaced or removed in the bucket
Upload(which, content) ==
    /\ mode = "mirror"
    /\ s3[which] # content
    /\ s3' = [s3 EXCEPT ![which] = content]
    /\ call' = NoCall
    /\ UNCHANGED obj
    /\ MirrorUnchanged

\* a local file or a sidecar is removed from the download directory
RemoveLocal(field) ==
    /\ mode = "mirror"
    /\ obj[field] # "none"
    /\ obj' = [obj EXCEPT ![field] = "none"]
    /\ call' = NoCall
    /\ UNCHANGED s3
    /\ MirrorUnchanged

MirrorNext ==
    \/ \E download_mode \in DownloadMode, head_ok \in BOOLEAN, write_ok \in BOOLEAN :
           Download(download_mode, head_ok, write_ok)
    \/ \E which \in {"file", "sig"}, head_ok \in BOOLEAN, write_ok \in BOOLEAN :
           BucketDownload(which, head_ok, write_ok)
    \/ \E which \in {"file", "sig"} : \E content \in Contents[which] \cup {"fail"} :
           Upload(which, content)
    \/ \E field \in DOMAIN NoObject : RemoveLocal(field)

MirrorSpec == MirrorInit /\ [][MirrorNext]_vars

(***************************************************************************)
(* EESSIS3Bucket.download with the bucket changing under it: the GET       *)
(* (download_file) and the HEAD (get_metadata) are two requests, and an    *)
(* upload to the bucket may fall between them.  call.op = "get" while a    *)
(* download is between its two requests.                                   *)
(***************************************************************************)
RaceInit ==
    /\ mode = "race" /\ bucket = {}
    /\ cfg \in Configs
    /\ main = [a \in Tarballs |-> {}]
    /\ NothingYet
    /\ obj = NoObject
    /\ s3 = [file |-> "c1", sig |-> "s1"]
    /\ call = NoCall

EtagOf(which) == IF which = "file" THEN "file_etag" ELSE "sig_etag"

\* client.download_file: the object's content is written to the local file
DownloadFile(which) ==
    /\ mode = "race"
    /\ call.op # "get"
    /\ IF s3[which] = "fail"
       THEN /\ call' = [op |-> "downloaded", which |-> which, raised |-> TRUE, ret |-> FALSE]
            /\ UNCHANGED obj
       ELSE /\ call' = [op |-> "get", which |-> which, raised |-> FALSE, ret |-> FALSE]
            /\ obj' = [obj EXCEPT ![which] = s3[which]]
    /\ UNCHANGED s3
    /\ MirrorUnchanged

\* get_metadata(remote_path)['ETag'] and _write_etag
GetMetadataAndWriteEtag ==
    /\ mode = "race"
    /\ call.op = "get"
    /\ IF head_fails(s3[call.which], TRUE)
       THEN /\ call' = [call EXCEPT !.op = "downloaded", !.raised = TRUE]
            /\ UNCHANGED obj
       ELSE /\ call' = [call EXCEPT !.op = "downloaded"]
            /\ obj' = [obj EXCEPT ![EtagOf(call.which)] =
                                     write_etag(@, s3[call.which], TRUE)]
    /\ UNCHANGED s3
    /\ MirrorUnchanged

\* an object is uploaded, replaced or removed in the bucket, also while a
\* download is between its requests
ConcurrentUpload(which, content) ==
    /\ mode = "race"
    /\ s3[which] # content
    /\ s3' = [s3 EXCEPT ![which] = content]
    /\ UNCHANGED <<obj, call>>
    /\ MirrorUnchanged

\* a later EESSIDataAndSignatureObject.download(CHECK_REMOTE), with no
\* upload during it
CheckRemote ==
    LET r == data_object_download(obj, "CHECK_REMOTE", cfg.signatures_required, s3, TRUE, TRUE)
    IN /\ mode = "race"
       /\ call.op # "get"
       /\ obj' = r.obj
       /\ call' = [op |-> "check_remote", which |-> "both", raised |-> r.raised, ret |-> r.ret]
       /\ UNCHANGED s3
       /\ MirrorUnchanged

RaceNext ==
    \/ \E which \in {"file", "sig"} : DownloadFile(which)
    \/ GetMetadataAndWriteEtag
    \/ \E which \in {"file", "sig"} : \E content \in Contents[which] \cup {"fail"} :
           ConcurrentUpload(which, content)
    \/ CheckRemote

RaceSpec == RaceInit /\ [][RaceNext]_vars

\* C36: when the remote object is replaced concurrently with a download, the
\* sidecar still describes the bytes stored locally: after download()
\* returns, the ETag in the sidecar is the ETag of the object version whose
\* content is in the local file, and a later CHECK_REMOTE download never
\* skips a file whose local content is older than the remote object.
C36_SidecarDescribesLocalBytes ==
    /\ (call.op = "downloaded" /\ ~call.raised)
           => obj[EtagOf(call.which)] = ETag(obj[call.which])
    /\ (call.op = "check_remote" /\ ~call.raised /\ ~call.ret)
           => obj.file = s3.file /\ obj.sig = s3.sig

\* the requests of a call
Requests(c) == {c.reqs[i] : i \in 1..Len(c.reqs)}

\* the local files and sidecars exist
FilesExist(o) == o.file # "none" /\ o.sig # "none"
EtagsExist(o) == o.file_etag # "none" /\ o.sig_etag # "none"
\* a sidecar differs from the ETag of the object in the bucket
EtagChanged(o, remote) == ETag(remote.file) # o.file_etag \/ ETag(remote.sig) # o.sig_etag

C19_FailedDownloadCleansUp ==
    [][call'.op = "download" =>
         LET downloads == GET("file") \in Requests(call')
             data_fails == downloads /\ (s3.file = "fail" \/ ~call'.head_ok)
             sig_fails == downloads /\ ~data_fails /\ (s3.sig = "fail" \/ ~call'.head_ok)
         IN IF data_fails \/ (sig_fails /\ cfg.signatures_required)
            THEN call'.raised /\ obj' = NoObject
            ELSE ~call'.raised
      ]_vars

C19_Witness ==
    /\ call.op = "download" /\ call.raised
    /\ cfg.signatures_required
    /\ s3.file # "fail" /\ s3.sig = "fail" /\ call.head_ok
    /\ GET("sig") \in Requests(call)
    /\ obj = NoObject

\* the sidecars hold the ETags of the objects downloaded by the call
SidecarsWritten(c, o, remote) ==
    /\ c.which \in {"file", "both"} => o.file_etag = ETag(remote.file)
    /\ (c.which \in {"sig", "both"} /\ o.sig # "none") => o.sig_etag = ETag(remote.sig)

TaskEdges ==
    {<<"UNDETERMINED", "NEW_TASK">>, <<"NEW_TASK", "PAYLOAD_STAGED">>,
     <<"PAYLOAD_STAGED", "PULL_REQUEST">>, <<"PULL_REQUEST", "APPROVED">>,
     <<"PULL_REQUEST", "REJECTED">>, <<"APPROVED", "INGESTED">>}

\* the step is a handler run for artifact a
HandlerRan(a) == lastOp'.op \in {"handle", "run_handler"} /\ lastOp'.a = a

\* the step writes nothing to the staging repository
NoWrite ==
    /\ main' = main /\ brs' = brs /\ issues' = issues
    /\ tdef' = tdef /\ tfiles' = tfiles /\ feat' = feat

C26_SequenceAllocation ==
    [][\A t \in Tasks :
         LET after == [tdef |-> tdef', files |-> tfiles', feat |-> feat', issues |-> issues']
             used == UNION {sequence_numbers(TRepo, u) : u \in Tasks}
             closed == feat.pr \in {"closed", "merged"}
         IN (sequence_numbers(TRepo, t) = {} /\ used # {})
                => \A n \in sequence_numbers(after, t) :
                       /\ closed <=> (\A m \in used : n > m)
                       /\ ~closed => n = Max(used)
      ]_vars

\* C30: when the notification is posted after a successful ingestion,
\* whatever status the webhook answers with (200 or not), the handler
\* completes normally and the artifact is recorded as INGESTED: ingest ends
\* without exception, and the task handler returns INGESTED.
C30_WebhookErrorNotFatal ==
    [][/\ \A a \in Tarballs :
            HandlerRan(a) /\ slack'[a] > slack[a]
                => lastOp'.res = "ingested" /\ main'[a] = {"ingested"}
       /\ \A t \in Tasks :
            HandlerRan(t) /\ slack'[t] > slack[t]
                => lastOp'.res = "INGESTED" /\ tdef'[t] = "INGESTED"
      ]_vars

(***************************************************************************)
(* Grouped mode: EessiTarball.process_pr_merge on its own.  The body of a  *)
(* pull request is a sequence of lines; a line is a checkbox line          *)
(* "- [x] <tarball>", "- [ ] <tarball>" or "- [X] <tarball>", or other     *)
(* text.  The function is called on the EessiTarball object of one tarball *)
(* of the group, self, for a merged pull request and its branch.           *)
(***************************************************************************)
MaxLines == 2
Boxes == {"x", " ", "X", "text"}
Lines == [box : Boxes, tarball : Tarballs]
Bodies == UNION {[1..n -> Lines] : n \in 1..MaxLines}

\* the lines that start with '- [x] '
extract_checked_tarballs(pr_body) ==
    {pr_body[i].tarball : i \in {k \in 1..Len(pr_body) : pr_body[k].box = "x"}}

\* the lines that start with '- [', in the order of the body
extract_tarballs_from_pr_body(pr_body) ==
    LET checkbox(line) == line.box # "text"
        picked == SelectSeq(pr_body, checkbox)
    IN [i \in 1..Len(picked) |-> picked[i].tarball]

\* the loop of process_pr_merge over the listed tarballs: each turn moves
\* the metadata file of self on the branch; an exception ends the function
RECURSIVE process_tarballs(_, _, _, _, _)
process_tarballs(g, self, tarballs, checked_tarballs, branch_name) ==
    IF tarballs = <<>>
    THEN [g |-> g, raised |-> FALSE]
    ELSE LET m == move_metadata_file(g, self, "staged",
                                     IF Head(tarballs) \in checked_tarballs
                                     THEN "approved" ELSE "rejected",
                                     branch_name, "none")
         IN IF m.raised
            THEN m
            ELSE process_tarballs(m.g, self, Tail(tarballs), checked_tarballs, branch_name)

\* EessiTarball.process_pr_merge; the branch is deleted at the end
process_pr_merge(g, self, branch_name, pr_body) ==
    LET tarballs == extract_tarballs_from_pr_body(pr_body)
        checked_tarballs == extract_checked_tarballs(pr_body)
        r == process_tarballs(g, self, tarballs, checked_tarballs, branch_name)
    IN IF r.raised
       THEN r
       ELSE [g |-> [r.g EXCEPT !.brs[branch_name] = [NoBranch EXCEPT !.pr = "merged"]],
             raised |-> FALSE]

GroupBranch == <<4, 1>>
GroupDirs == {{}, {"staged"}, {"approved"}}

GroupInit ==
    /\ mode = "group" /\ bucket = Tarballs
    /\ cfg \in Configs
    /\ main \in [Tarballs -> GroupDirs]
    /\ \E tree \in [Tarballs -> GroupDirs] :
           brs = [b \in BranchIds |->
                     IF b = GroupBranch
                     THEN [exists |-> TRUE, tree |-> tree, base |-> tree, pr |-> "merged"]
                     ELSE NoBranch]
    /\ issues = [t \in IssueTitles |-> 0]
    /\ local = [a \in Artifacts |-> NoFiles]
    /\ ingestRuns = [a \in Artifacts |-> 0]
    /\ slack = [a \in Artifacts |-> 0]
    /\ lastOp = [op |-> "init", a |-> "none", st |-> "none", res |-> "none", rc |-> {}]
    /\ tdef = NoTasks
    /\ tfiles = [t \in Tasks |-> {}]
    /\ feat = NoFeature
    /\ pc = Idle
    /\ obj = NoObject
    /\ s3 = [file |-> "fail", sig |-> "fail"]
    /\ call = NoCall

ProcessPrMerge(self, pr_body) ==
    LET r == process_pr_merge(Repo, self, GroupBranch, pr_body)
    IN /\ mode = "group"
       /\ brs[GroupBranch].pr = "merged"
       /\ SetRepo(r.g)
       /\ Done("process_pr_merge", self, "none", IF r.raised THEN "raised" ELSE "processed")
       /\ call' = [op |-> "process_pr_merge", pr_body |-> pr_body]
       /\ UNCHANGED tvars
       /\ UNCHANGED <<mode, cfg, bucket, slack, local, ingestRuns, obj, s3>>

GroupNext == \E self \in Tarballs, pr_body \in Bodies : ProcessPrMerge(self, pr_body)

GroupSpec == GroupInit /\ [][GroupNext]_vars

\* tarball a is listed in exactly one line of the body, a checkbox line, and
\* its metadata file is in staged/ on the default branch and on the branch
\* of the pull request
ListedOnce(pr_body, a) ==
    /\ Cardinality({i \in 1..Len(pr_body) : pr_body[i].tarball = a}) = 1
    /\ main[a] = {"staged"}
    /\ brs[GroupBranch].tree[a] = {"staged"}

\* C27: after process_pr_merge for a merged pull request, the metadata file
\* of every tarball listed in the body is in approved/ iff its line is
\* "- [x] <tarball>", and in rejected/ iff its line is "- [ ] <tarball>".
C27_MergeDecoding ==
    [][call'.op = "process_pr_merge" =>
         \A i \in 1..Len(call'.pr_body) :
             LET line == call'.pr_body[i]
             IN ListedOnce(call'.pr_body, line.tarball) =>
                    /\ line.box = "x" => main'[line.tarball] = {"approved"}
                    /\ line.box = " " => main'[line.tarball] = {"rejected"}
      ]_vars

(***************************************************************************)
(* The functions of the service on their own: each is applied to arguments *)
(* drawn from small sets, and call records the arguments and the result.   *)
(***************************************************************************)
LocalSigs == {"none", "valid", "invalid"}

FunInit ==
    /\ mode = "fun" /\ bucket = {}
    /\ cfg \in Configs
    /\ main = [a \in Tarballs |-> {}]
    /\ NothingYet
    /\ obj = NoObject
    /\ s3 = [file |-> "fail", sig |-> "fail"]
    /\ call = NoCall

FunUnchanged ==
    /\ mode = "fun"
    /\ UNCHANGED tvars
    /\ UNCHANGED <<mode, cfg, bucket, main, brs, issues, local, ingestRuns, slack, lastOp, obj, s3>>

\* EessiTarball.verify_signatures on the local signature files psig and msig
VerifySignatures(psig, msig, tools) ==
    /\ FunUnchanged
    /\ tools.runs
    /\ call' = [op |-> "verify_signatures", psig |-> psig, msig |-> msig, tools |-> tools,
                ret |-> verify_signatures_tools([NoFiles EXCEPT !.psig = psig, !.msig = msig],
                                                cfg.signatures_required, tools)]

\* EESSIDataAndSignatureObject.verify_signature on the local signature file sig
VerifySignature(sig, tools) ==
    /\ FunUnchanged
    /\ call' = [op |-> "verify_signature", sig |-> sig, tools |-> tools,
                ret |-> verify_signature_tools(sig, cfg.signatures_required, tools)]

\* EessiTarball.verify_checksum on a local payload and a local metadata file
VerifyChecksum(pay, meta) ==
    /\ FunUnchanged
    /\ call' = [op |-> "verify_checksum", pay |-> pay, meta |-> meta,
                ret |-> verify_checksum([NoFiles EXCEPT !.pay = pay, !.meta = meta])]

(***************************************************************************)
(* EESSITask._determine_task_action and the dispatch of EESSITask.handle.  *)
(* task_action is the task.action field of the task description: absent,   *)
(* or a string, which is compared in lower case.                           *)
(***************************************************************************)
TaskActions == {"absent", "nop", "add", "delete", "update", "ADD", "Nop", "purge"}

action_lower(action_str) ==
    CASE action_str = "ADD" -> "add"
      [] action_str = "Nop" -> "nop"
      [] OTHER -> action_str

determine_task_action(task_action) ==
    IF task_action # "absent"
    THEN LET action_str == action_lower(task_action)
         IN IF action_str = "nop" THEN "nop"
            ELSE IF action_str = "delete" THEN "delete"
            ELSE IF action_str = "add" THEN "add"
            ELSE IF action_str = "update" THEN "update"
            ELSE "unknown"
    ELSE "unknown"

\* the handler methods EESSITask defines, by action and state
Handlers ==
    {<<"add", state>> : state \in {"UNDETERMINED", "NEW_TASK", "PAYLOAD_STAGED", "PULL_REQUEST",
                                   "APPROVED", "INGESTED", "REJECTED"}}

\* the handler that handle() runs for an action and a state, if it exists;
\* without handler it logs an error and returns the state
handler_of(action, state) ==
    IF <<action, state>> \in Handlers THEN {<<action, state>>} ELSE {}

Dispatch(task_action, state) ==
    /\ FunUnchanged
    /\ call' = [op |-> "handle", task_action |-> task_action, state |-> state,
                handler |-> handler_of(determine_task_action(task_action), state)]

(***************************************************************************)
(* Discovery.  A key of the bucket is the sequence of a name and its       *)
(* extensions, so that file + extension appends one and file[:-len(ext)]   *)
(* drops the last.  The provider lists the keys in order, at most MaxKeys  *)
(* per response.                                                           *)
(***************************************************************************)
MaxKeys == 2
KeyOrder ==
    <<  <<"a", ".tar.gz">>, <<"a", ".tar.gz", ".meta.txt">>,
        <<"b", ".tar.gz">>, <<"b", ".tar.gz", ".meta.txt">>,
        <<"c">>, <<"c", ".task">>, <<"d", ".task">>  >>
Keys == {KeyOrder[i] : i \in 1..Len(KeyOrder)}

\* the keys of the bucket in the order of the listing
listing(keys) == LET present(k) == k \in keys IN SelectSeq(KeyOrder, present)

endswith(file, ext) == Len(file) > 1 /\ file[Len(file)] = ext

\* s3.list_objects_v2: one page of the listing, from the continuation token on
list_objects_v2(keys, continuation_token) ==
    LET all == listing(keys)
        last == IF continuation_token + MaxKeys < Len(all)
                THEN continuation_token + MaxKeys ELSE Len(all)
    IN [Contents |-> SubSeq(all, continuation_token + 1, last),
        IsTruncated |-> last < Len(all),
        NextContinuationToken |-> last]

\* find_tarballs: one call of list_objects_v2
find_tarballs(keys) ==
    LET files == list_objects_v2(keys, 0).Contents
        has_metadata(file) ==
            /\ endswith(file, ".tar.gz")
            /\ \E i \in 1..Len(files) : files[i] = Append(file, ".meta.txt")
    IN SelectSeq(files, has_metadata)

\* find_deployment_tasks: the pages are read until IsTruncated is not set
RECURSIVE list_all(_, _)
list_all(keys, continuation_token) ==
    LET response == list_objects_v2(keys, continuation_token)
    IN IF response.IsTruncated
       THEN response.Contents \o list_all(keys, response.NextContinuationToken)
       ELSE response.Contents

find_deployment_tasks(keys, extensions) ==
    LET files == list_all(keys, 0)
        file_set == {files[i] : i \in 1..Len(files)}
        has_payload(file) ==
            \E k \in 1..Len(extensions) :
                endswith(file, extensions[k]) /\ SubSeq(file, 1, Len(file) - 1) \in file_set
    IN SelectSeq(files, has_payload)

FindTarballs(keys) ==
    /\ FunUnchanged
    /\ call' = [op |-> "find_tarballs", keys |-> keys, ret |-> find_tarballs(keys)]

FindDeploymentTasks(keys, extensions) ==
    /\ FunUnchanged
    /\ call' = [op |-> "find_deployment_tasks", keys |-> keys, extensions |-> extensions,
                ret |-> find_deployment_tasks(keys, extensions)]

(***************************************************************************)
(* The exit of the process.  error(msg, code=1) logs and calls             *)
(* sys.exit(code); parse_config calls it for an unreadable configuration   *)
(* file, a missing section and a missing item, and the main guard calls it *)
(* when the pidfile is held (PidFileError); none of them passes a code.    *)
(***************************************************************************)
error_default_code == 1
error(code) == code

ConfigFailures == {"unreadable_config", "missing_section", "missing_item", "missing_pr_body"}
Failures == ConfigFailures \cup {"PidFileError", "none"}

exit_code(failure) ==
    CASE failure = "PidFileError" -> error(error_default_code)
      [] failure \in ConfigFailures -> error(error_default_code)
      [] OTHER -> 0

Exit(failure) ==
    /\ FunUnchanged
    /\ call' = [op |-> "main", failure |-> failure, exit |-> exit_code(failure)]

(***************************************************************************)
(* One run of the scheduler, main: the buckets in order and in each the    *)
(* artifacts found in order.  The outcome of handling an artifact is done, *)
(* failed (a remote call failed and the handler caught it, as download     *)
(* does for the object storage) or raised (the failed call left the        *)
(* handler as an exception, as move_metadata_file and send_slack_message   *)
(* do).  The loop over tarballs calls run_handler without try; the loop    *)
(* over tasks catches every exception and continues.                       *)
(***************************************************************************)
Outcomes == {"done", "failed", "raised"}
staging_buckets == << <<"a4", "a42">>, <<"t1", "t2">> >>

\* the loop over the artifacts of one bucket: the artifacts handled, and
\* whether an exception left the loop
RECURSIVE process_artifacts(_, _, _)
process_artifacts(artifacts, outcomes, task_based) ==
    IF artifacts = <<>>
    THEN [handled |-> <<>>, raised |-> FALSE]
    ELSE IF outcomes[Head(artifacts)] = "raised" /\ ~task_based
    THEN [handled |-> <<Head(artifacts)>>, raised |-> TRUE]
    ELSE LET rest == process_artifacts(Tail(artifacts), outcomes, task_based)
         IN [handled |-> <<Head(artifacts)>> \o rest.handled, raised |-> rest.raised]

\* the loop over the buckets
RECURSIVE process_buckets(_, _, _)
process_buckets(buckets, outcomes, task_based) ==
    IF buckets = <<>>
    THEN [handled |-> <<>>, raised |-> FALSE]
    ELSE LET first == process_artifacts(Head(buckets), outcomes, task_based)
         IN IF first.raised
            THEN first
            ELSE LET rest == process_buckets(Tail(buckets), outcomes, task_based)
                 IN [handled |-> first.handled \o rest.handled, raised |-> rest.raised]

Run(task_based, outcomes) ==
    /\ FunUnchanged
    /\ call' = [op |-> "run", task_based |-> task_based, outcomes |-> outcomes,
                handled |-> process_buckets(staging_buckets, outcomes, task_based).handled]

(***************************************************************************)
(* The local files of one task and their ETag sidecars.  A file name is    *)
(* the sequence of its parts between the dots.  Path.with_suffix replaces  *)
(* the last suffix of the name, and appends the suffix to a name without   *)
(* one.  The signature is the file name followed by the configured         *)
(* signature_file_extension; the payload is the file that the task         *)
(* description names, in the directory of the task file.                   *)
(***************************************************************************)
with_suffix(name, suffix) ==
    IF Len(name) > 1
    THEN SubSeq(name, 1, Len(name) - 1) \o <<suffix>>
    ELSE name \o <<suffix>>

get_etag_file_path(local_path) == with_suffix(local_path, "etag")

signature_file_extension == "sig"

TaskFileNames ==
    {<<"x", "tar", "gz", "task">>, <<"x", "tar", "gz", "meta", "txt">>, <<"x", "task">>}

PayloadNames == {<<"x", "tar", "gz">>, <<"x", "tgz">>, <<"y", "tar", "gz">>}

\* the files of EESSITask: description.task_object and payload.payload_object,
\* each with its signature
local_paths(task_file, payload_name) ==
    <<task_file, task_file \o <<signature_file_extension>>,
      payload_name, payload_name \o <<signature_file_extension>> >>

EtagPaths(task_file, payload_name) ==
    LET paths == local_paths(task_file, payload_name)
    IN /\ FunUnchanged
       /\ call' = [op |-> "etag_paths", paths |-> paths,
                   sidecars |-> [i \in 1..Len(paths) |-> get_etag_file_path(paths[i])]]

\* EessiTarball.find_state for a tarball whose metadata file is in the state
\* directories dirs of the default branch
FindState(dirs) ==
    /\ FunUnchanged
    /\ call' = [op |-> "find_state", dirs |-> dirs,
                ret |-> find_state([Repo EXCEPT !.main["a4"] = dirs], "a4")]

FunNext ==
    \/ \E task_file \in TaskFileNames, payload_name \in PayloadNames :
           EtagPaths(task_file, payload_name)
    \/ \E task_based \in BOOLEAN, outcomes \in [Artifacts -> Outcomes] : Run(task_based, outcomes)
    \/ \E failure \in Failures : Exit(failure)
    \/ \E keys \in SUBSET Keys : FindTarballs(keys)
    \/ \E keys \in SUBSET Keys, extensions \in {<<".task">>, <<".tar.gz", ".task">>} :
           FindDeploymentTasks(keys, extensions)
    \/ \E task_action \in TaskActions, state \in {TaskState[i] : i \in 1..Len(TaskState)} :
           Dispatch(task_action, state)
    \/ \E dirs \in SUBSET StateDirs : FindState(dirs)
    \/ \E pay \in {"p1", "p2"}, meta \in {"m1", "M1", "m2", "M2"} : VerifyChecksum(pay, meta)
    \/ \E psig \in LocalSigs, msig \in LocalSigs, tools \in Tools : VerifySignatures(psig, msig, tools)
    \/ \E sig \in LocalSigs, tools \in Tools : VerifySignature(sig, tools)

FunSpec == FunInit /\ [][FunNext]_vars

\* what C21 calls valid for one local signature file
SignatureValid(sig, required, tools) ==
    \/ sig = "none" /\ ~required
    \/ sig # "none" /\ tools.script /\ tools.signers /\ tools.runs /\ verify_exit(sig) = 0

\* C21: signature verification returns valid iff the signature file is
\* absent and signatures are not required, or it is present, the
\* verification script and the allowed-signers file exist and the
\* verification exits with 0; a present signature is always checked, and an
\* absent one is invalid when signatures are required.  For a tarball this
\* is said of both of its signature files.
C21_SignatureVerification ==
    /\ call.op = "verify_signature"
           => (call.ret <=> SignatureValid(call.sig, cfg.signatures_required, call.tools))
    /\ call.op = "verify_signatures"
           => (call.ret <=> \A sig \in {call.psig, call.msig} :
                               SignatureValid(sig, cfg.signatures_required, call.tools))

\* C22: verify_checksum returns true iff the SHA-256 of the local payload
\* equals payload.sha256sum of the metadata, compared without regard to the
\* case of the hexadecimal digits.
C22_ChecksumCaseInsensitive ==
    call.op = "verify_checksum"
        => (call.ret <=> lower(sha256sum(call.pay)) = lower(meta_sha256(call.meta)))

\* C23: find_state returns the state directory of the default branch that
\* holds the metadata file when exactly one does, new when none does, and
\* unknown when more than one does.
C23_StateDiscovery ==
    call.op = "find_state"
        => call.ret = IF call.dirs = {} THEN "new"
                      ELSE IF Cardinality(call.dirs) = 1 THEN CHOOSE dir \in call.dirs : TRUE
                      ELSE "unknown"

\* C25: a task whose metadata has no task.action field is handled as a task
\* with action add: handle() runs the add handler of its current state.
C25_AbsentActionIsAdd ==
    call.op = "handle" /\ call.task_action = "absent"
        => call.handler = handler_of(determine_task_action("add"), call.state)

\* the elements of a sequence
Range(seq) == {seq[i] : i \in 1..Len(seq)}

\* C28: discovery considers every key of the bucket, however many pages the
\* listing has: find_tarballs returns exactly the keys ending in .tar.gz
\* whose sibling with the metadata extension is a key of the bucket, and
\* find_deployment_tasks exactly the keys ending in a task extension whose
\* name without that extension is a key of the bucket.
C28_DiscoveryIsComplete ==
    /\ call.op = "find_tarballs"
           => Range(call.ret) = {k \in call.keys : /\ endswith(k, ".tar.gz")
                                                  /\ Append(k, ".meta.txt") \in call.keys}
    /\ call.op = "find_deployment_tasks"
           => Range(call.ret) =
                  {k \in call.keys : \E ext \in Range(call.extensions) :
                       endswith(k, ext) /\ SubSeq(k, 1, Len(k) - 1) \in call.keys}

\* C29: when the pidfile is held by another running instance, the process
\* exits with a non-zero code that differs from the code of the fatal
\* configuration errors.
C29_PidfileExitCodeDistinct ==
    call.op = "main" /\ call.failure = "PidFileError"
        => /\ call.exit # 0
           /\ \A failure \in ConfigFailures : call.exit # exit_code(failure)

\* C31: a failed remote call while handling one artifact abandons only that
\* artifact: the run still handles every other artifact of the bucket and
\* of the remaining buckets (and so the next run handles the abandoned one
\* again).
C31_FailureAbandonsOneArtifact ==
    call.op = "run"
        => \A i \in 1..Len(staging_buckets) :
               \A k \in 1..Len(staging_buckets[i]) :
                   \E h \in 1..Len(call.handled) : call.handled[h] = staging_buckets[i][k]

C33_SequenceOfExactlyThatPR ==
    [][\A b \in BranchIds :
          (~brs[b].exists /\ brs'[b].exists)
              => LET own == {c \in BranchIds : brs[c].exists /\ c[1] = b[1]}
                 IN b[2] = IF own = {} THEN 1 ELSE Max({c[2] : c \in own}) + 1]_vars

\* C34: also when git-host calls fail, the ingest script completes
\* successfully at most once per artifact: after a run in which it exited
\* with 0 for an artifact, no later run invokes it again for that artifact.
\* Stated for the run that follows: it does not run the script for the
\* artifact of the run before it when that run's script exited with 0.
C34_IngestedAtMostOnce ==
    [][(lastOp.rc = {0} /\ lastOp.a \in Artifacts)
          => ingestRuns'[lastOp.a] = ingestRuns[lastOp.a]]_vars

\* C35: the ETag sidecar paths of the files mirrored for one task (the task
\* file, its signature, the payload named by the task, its signature) are
\* distinct for distinct files, so that downloading one file never
\* overwrites the sidecar of another.
C35_SidecarPathsDistinct ==
    call.op = "etag_paths"
        => \A i, j \in 1..Len(call.paths) :
               call.paths[i] # call.paths[j] => call.sidecars[i] # call.sidecars[j]

\* C37: whenever the state of a task on the default branch is PULL_REQUEST
\* (and its handler is not running), a pull request exists for its feature
\* branch; also when creating the pull request or the task summary failed
\* after the task states were updated.
C37_PullRequestStateHasPR ==
    pc = Idle => \A t \in Tasks : tdef[t] = "PULL_REQUEST" => feat.pr # "none"

\* C38: under repeated runs in which remote calls eventually succeed, every
\* discovered task whose staging pull request is closed (merged or not)
\* eventually reaches INGESTED or REJECTED, also a task discovered after the
\* pull request of its grouping key was closed.  (The runs of the script are
\* counted up to MaxIngestRuns in the model.)
C38_ClosedPREventuallyTerminal ==
    \A t \in Tasks :
        (tdef[t] # "UNDETERMINED" /\ feat.pr \in {"closed", "merged"})
            ~> (tdef[t] \in {"INGESTED", "REJECTED"} \/ ingestRuns[t] >= MaxIngestRuns)

C40_UnverifiedTaskWritesNothing ==
    [][\A t \in Tasks :
          (/\ lastOp'.op = "handle" /\ lastOp'.a = t
           /\ \/ local'[t].msig = "invalid"
              \/ local'[t].msig = "none" /\ cfg.signatures_required)
              => NoWrite /\ ingestRuns' = ingestRuns
      ]_vars

\* a wrongly signed task description was found for a task whose pull
\* request was merged, and the task was not handled
C40_Witness ==
    /\ lastOp.op = "handle" /\ lastOp.a = "t1" /\ lastOp.st = "APPROVED"
    /\ local["t1"].msig = "invalid"
    /\ tdef["t1"] = "APPROVED" /\ ingestRuns["t1"] = 0
====
